---- MODULE Spec2Model ----
(***************************************************************************)
(* A model of gpt_researcher/prompts.py: the PromptFamily prompt           *)
(* generators, the two dispatch tables and the two resolvers               *)
(* get_prompt_by_report_type and get_prompt_family.                        *)
(*                                                                         *)
(* A text is a sequence of tokens.  The literal text of a template is cut  *)
(* at every line break and at every '#', so that "\n" and "#" are always   *)
(* tokens of their own; the other tokens hold the source text verbatim.    *)
(* A Python value is a record [t, s, l]: its type, its text (str), digits  *)
(* (int) or member name (enum), and its items (list of str, list of dict). *)
(***************************************************************************)
EXTENDS Integers, Sequences, FiniteSets, TLC

VARIABLES
    report_type_mapping,    \* the module-level dict, as an ordered sequence of <<key, value>>
    prompt_family_mapping,  \* the module-level dict, as an ordered sequence of <<key, class>>
    warnings,               \* how many warnings warnings.warn has been given so far
    clock,                  \* the current date, read by date.today() and datetime.now()
    pending,                \* the arguments a caller has prepared for a direct generator call
    last,                   \* the last call: its operation, arguments, outcome and warnings
    default_context,        \* the items of the list that is the default of the parameter
                            \* context of generate_search_queries_prompt
    seen,                   \* a generator call a caller has kept, with the warnings count then
    unregistered_calls      \* how many get_prompt_by_report_type calls so far were given a
                            \* report_type that is not a key of report_type_mapping

vars ==
    <<report_type_mapping, prompt_family_mapping, warnings, clock, pending, last,
      default_context, seen, unregistered_calls>>

----------------------------------------------------------------------------
(* Bounds *)

\* Calls are made while fewer than MaxWarnings warnings have been emitted.
MaxWarnings == 2

\* The longest input text, in characters, given to a direct generator call.
MaxLen == 3

\* The largest max_iterations given to generate_search_queries_prompt.
MaxIterations == 3

\* The most tools in the catalog given to generate_mcp_tool_selection_prompt.
MaxTools == 2

\* The most candidate sources given to curate_sources.
MaxSources == 2

\* The most documents given to pretty_print_docs.
MaxDocs == 2

----------------------------------------------------------------------------
(* Python values *)

StrV(s) == [t |-> "str", s |-> s, l |-> <<>>]

IntV(digits) == [t |-> "int", s |-> <<digits>>, l |-> <<>>]

ToneMember(name) == [t |-> "tone", s |-> <<name>>, l |-> <<>>]

FamilyEnumMember(name) == [t |-> "family_enum", s |-> <<name>>, l |-> <<>>]

ListOfStr(items) == [t |-> "list", s |-> <<>>, l |-> items]

\* A list of dicts with str keys and str values; a dict is written as the
\* sequence key, value, key, value, ... of its items in insertion order.
ListOfDict(dicts) == [t |-> "dicts", s |-> <<>>, l |-> dicts]

\* A list of tool references.  An element is written as its kind and its texts:
\*   "named", name, form   an object with the attribute name and the string form;
\*   "object", form        an object without the attribute name;
\*   "str", form           a str, which has no attribute name and is its own form.
ListOfTool(elements) == [t |-> "tools", s |-> <<>>, l |-> elements]

\* hasattr(tool, 'name')
HasNameAttr(tool) == tool[1] = "named"

\* tool.name
NameAttr(tool) == <<tool[2]>>

\* str(tool)
StrOfTool(tool) == IF tool[1] = "named" THEN <<tool[3]>> ELSE <<tool[2]>>

\* A list of Documents.  A Document is written as its page_content followed by
\* the key, value, key, value, ... of its metadata dict.
ListOfDoc(docs) == [t |-> "docs", s |-> <<>>, l |-> docs]

\* d.page_content
PageContent(doc) == <<doc[1]>>

\* str(d.metadata.get(key)): the value, or None for a missing key.
MetadataGet(doc, key) ==
    LET metadata == Tail(doc)
    IN IF \E i \in 1..(Len(metadata) \div 2) : metadata[2 * i - 1] = key
       THEN <<metadata[2 * (CHOOSE i \in 1..(Len(metadata) \div 2) : metadata[2 * i - 1] = key)]>>
       ELSE <<"None">>

\* The (key, value) items of a dict.
Items(dict) == [i \in 1..(Len(dict) \div 2) |-> <<dict[2 * i - 1], dict[2 * i]>>]

NoneValue == [t |-> "none", s |-> <<>>, l |-> <<>>]

\* The marker of a parameter without a default.
Required == [t |-> "required", s |-> <<>>, l |-> <<>>]

\* bool(v)
Truthy(v) ==
    CASE v.t = "none" -> FALSE
      [] v.t = "str" -> v.s /= <<>>
      [] v.t = "int" -> v.s /= <<"0">>
      [] v.t = "list" -> v.l /= <<>>
      [] v.t = "dicts" -> v.l /= <<>>
      [] v.t = "tools" -> v.l /= <<>>
      [] v.t = "docs" -> v.l /= <<>>
      [] OTHER -> TRUE

\* v == w for the values of the model (an enum member equals only itself).
PyEq(v, w) == v.t = w.t /\ v.s = w.s /\ v.l = w.l

RECURSIVE Flatten(_)
Flatten(seqs) ==
    IF seqs = <<>> THEN <<>> ELSE Head(seqs) \o Flatten(Tail(seqs))

\* sep.join(items), items a sequence of texts.
RECURSIVE Join(_, _)
Join(items, sep) ==
    IF items = <<>> THEN <<>>
    ELSE IF Len(items) = 1 THEN items[1]
    ELSE items[1] \o sep \o Join(Tail(items), sep)

\* repr of a str: quoted, a line break written as backslash n.
PyReprStr(s) ==
    <<"'">> \o Flatten([i \in 1..Len(s) |-> IF s[i] = "\n" THEN <<"\\", "n">> ELSE <<s[i]>>]) \o <<"'">>

\* repr of a dict with str keys and str values.
PyReprDict(dict) ==
    <<"{">>
    \o Join([i \in 1..Len(Items(dict)) |->
                PyReprStr(<<Items(dict)[i][1]>>) \o <<": ">>
                \o PyReprStr(<<Items(dict)[i][2]>>)], <<", ">>)
    \o <<"}">>

\* str(v), which is what an f-string's {v} inserts.
PyStr(v) ==
    CASE v.t = "str" -> v.s
      [] v.t = "int" -> v.s
      [] v.t = "none" -> <<"None">>
      [] v.t = "tone" -> <<"Tone.", v.s[1]>>
      [] v.t = "family_enum" -> <<"PromptFamily.", v.s[1]>>
      [] v.t = "list" -> <<"[">> \o Join([i \in 1..Len(v.l) |-> PyReprStr(v.l[i])], <<", ">>) \o <<"]">>
      [] v.t = "dicts" -> <<"[">> \o Join([i \in 1..Len(v.l) |-> PyReprDict(v.l[i])], <<", ">>) \o <<"]">>

\* The int of the digits n.
IntOf(n) == IntV(ToString(n))

\* The number an int of the model holds.
IntNum(v) == CHOOSE n \in -1..(MaxIterations + MaxDocs) : ToString(n) = v.s[1]

\* json.dumps writes a str in double quotes, with these characters escaped.
JsonEscape(c) ==
    CASE c = "\n" -> <<"\\", "n">>
      [] c = "\"" -> <<"\\", "\"">>
      [] c = "\\" -> <<"\\", "\\">>
      [] OTHER -> <<c>>

JsonString(s) ==
    <<"\"">> \o Flatten([i \in 1..Len(s) |-> JsonEscape(s[i])]) \o <<"\"">>

\* The indentation of nesting depth d under indent=2.
JsonIndent(d) == [i \in 1..d |-> "  "]

\* A dict as json.dumps(..., indent=2) writes it at nesting depth d.
JsonObject(dict, d) ==
    IF dict = <<>> THEN <<"{}">>
    ELSE <<"{", "\n">>
         \o Join([i \in 1..Len(Items(dict)) |->
                     JsonIndent(d + 1) \o JsonString(<<Items(dict)[i][1]>>) \o <<": ">>
                     \o JsonString(<<Items(dict)[i][2]>>)], <<",", "\n">>)
         \o <<"\n">> \o JsonIndent(d) \o <<"}">>

\* json.dumps raises TypeError for a value that is not of a JSON type.
JsonSerializable(v) == v.t \in {"dicts", "list", "str", "int", "none"}

\* json.dumps(v, indent=2)
JsonDumps(v) ==
    CASE v.t = "str" -> JsonString(v.s)
      [] v.t = "int" -> v.s
      [] v.t = "none" -> <<"null">>
      [] v.t = "list" ->
            IF v.l = <<>> THEN <<"[]">>
            ELSE <<"[", "\n">>
                 \o Join([i \in 1..Len(v.l) |-> JsonIndent(1) \o JsonString(v.l[i])],
                         <<",", "\n">>)
                 \o <<"\n", "]">>
      [] v.t = "dicts" ->
            IF v.l = <<>> THEN <<"[]">>
            ELSE <<"[", "\n">>
                 \o Join([i \in 1..Len(v.l) |-> JsonIndent(1) \o JsonObject(v.l[i], 1)],
                         <<",", "\n">>)
                 \o <<"\n", "]">>

\* The outcome of a call: a returned value or a raised exception.
Return(val) == [kind |-> "return", val |-> val]

Raise(exc) == [kind |-> "raise", val |-> <<exc>>]

\* text contains part as a contiguous run of tokens.
Contains(text, part) ==
    \E i \in 0..(Len(text) - Len(part)) : SubSeq(text, i + 1, i + Len(part)) = part

----------------------------------------------------------------------------
(* The enumerations of utils/enum.py, by the values the module reads *)

ResearchReport == "research_report"

ResourceReport == "resource_report"

OutlineReport == "outline_report"

CustomReport == "custom_report"

SubtopicReport == "subtopic_report"

DeepResearch == "deep_research"

DetailedReport == "detailed_report"

\* ReportSource.Web.value
Web == "web"

\* PromptFamilyEnum.Default.value
DefaultFamilyName == "default"

\* The members of PromptFamilyEnum the module names.
PromptFamilyEnumValue(name) ==
    CASE name = "Default" -> DefaultFamilyName

\* Tone.<name>.value, as a token that stands for the member's text.
ToneValue(name) ==
    CASE name = "Objective" -> "Tone.Objective.value"
      [] name = "Formal" -> "Tone.Formal.value"

----------------------------------------------------------------------------
(* Prompt families *)

\* The methods class PromptFamily defines.
PromptFamilyMethods ==
    { "generate_mcp_tool_selection_prompt", "generate_mcp_research_prompt",
      "generate_search_queries_prompt", "generate_report_prompt", "curate_sources",
      "generate_resource_report_prompt", "generate_custom_report_prompt",
      "generate_outline_report_prompt", "generate_deep_research_prompt",
      "auto_agent_instructions", "generate_summary_prompt", "pretty_print_docs",
      "join_local_web_documents", "generate_subtopics_prompt",
      "generate_subtopic_report_prompt", "generate_draft_titles_prompt",
      "generate_report_introduction", "generate_report_conclusion" }

\* The attributes a family's class gives, each with the class that defines it:
\*   PromptFamily  the base class;
\*   Derived       a subclass that overrides generate_outline_report_prompt;
\*   Partial       a family without generate_subtopic_report_prompt;
\*   NoDefault     a family without generate_report_prompt.
ClassAttrs(cls) ==
    CASE cls = "PromptFamily" -> [m \in PromptFamilyMethods |-> "PromptFamily"]
      [] cls = "Derived" ->
            [m \in PromptFamilyMethods |->
                IF m = "generate_outline_report_prompt" THEN "Derived" ELSE "PromptFamily"]
      [] cls = "Partial" ->
            [m \in PromptFamilyMethods \ {"generate_subtopic_report_prompt"} |-> "Partial"]
      [] cls = "NoDefault" ->
            [m \in PromptFamilyMethods \ {"generate_report_prompt"} |-> "NoDefault"]

\* A prompt family handed to get_prompt_by_report_type: a class or an instance of it.
Family(kind, cls) == [kind |-> kind, cls |-> cls]

\* The families that keep the method-name contract of the class docstring.
ContractFamilies ==
    { Family(k, c) : k \in {"class", "instance"}, c \in {"PromptFamily", "Derived"} }

Families ==
    ContractFamilies \cup { Family("instance", "Partial"), Family("instance", "NoDefault") }

\* None, where a method is expected.
NoMethod == <<>>

\* A generator is a static method: the class and an instance give the same function.
Method(owner, name) == <<owner, name>>

\* getattr(prompt_family, name, None)
GetAttrOrNone(prompt_family, name) ==
    LET attrs == ClassAttrs(prompt_family.cls)
    IN IF name \in DOMAIN attrs THEN Method(attrs[name], name) ELSE NoMethod

\* dict.get(key) of a missing key: None.
NoKey == "<None>"

\* getattr(prompt_family, name)
GetAttr(prompt_family, name) ==
    LET attrs == ClassAttrs(prompt_family.cls)
    IN IF name = NoKey THEN Raise("TypeError")
       ELSE IF name \in DOMAIN attrs THEN Return(Method(attrs[name], name))
       ELSE Raise("AttributeError")

\* PromptFamily.__init__(self, config), called with the arguments args.
NewPromptFamily(cls, args) ==
    IF Len(args) = 1 THEN Return(<<"instance", cls, args[1]>>)
    ELSE Raise("TypeError")

----------------------------------------------------------------------------
(* The dispatch tables and the resolvers *)

\* dict.keys(), in insertion order.
Keys(dict) == [i \in 1..Len(dict) |-> dict[i][1]]

HasKey(dict, key) == \E i \in 1..Len(dict) : dict[i][1] = key

\* dict.get(key, default)
Get(dict, key, default) ==
    IF HasKey(dict, key)
    THEN dict[CHOOSE i \in 1..Len(dict) : dict[i][1] = key][2]
    ELSE default

ReportTypeMappingWithDetailedReport ==
    << <<ResearchReport, "generate_report_prompt">>,
       <<ResourceReport, "generate_resource_report_prompt">>,
       <<OutlineReport, "generate_outline_report_prompt">>,
       <<CustomReport, "generate_custom_report_prompt">>,
       <<SubtopicReport, "generate_subtopic_report_prompt">>,
       <<DeepResearch, "generate_deep_research_prompt">>,
       <<DetailedReport, "generate_report_prompt">> >>

ReportTypeMappingBroken ==
    << <<ResearchReport, "generate_report_prompt">>,
       <<ResourceReport, "generate_resource_report_prompt">>,
       <<OutlineReport, "generate_outline_prompt">>,
       <<CustomReport, "generate_custom_report_prompt">>,
       <<SubtopicReport, "generate_subtopic_report_prompt">>,
       <<DeepResearch, "generate_deep_research_prompt">> >>

\* report_type_mapping as the module defines it.
ReportTypeMapping ==
    << <<ResearchReport, "generate_report_prompt">>,
       <<ResourceReport, "generate_resource_report_prompt">>,
       <<OutlineReport, "generate_outline_report_prompt">>,
       <<CustomReport, "generate_custom_report_prompt">>,
       <<SubtopicReport, "generate_subtopic_report_prompt">>,
       <<DeepResearch, "generate_deep_research_prompt">> >>

\* prompt_family_mapping as the module defines it.
PromptFamilyMapping == << <<DefaultFamilyName, "PromptFamily">> >>

\* A UserWarning with its message.
UserWarning(message) == [category |-> "UserWarning", message |-> message]

InvalidReportTypeWarning(mapping, report_type, default_report_type) ==
    UserWarning(<<"Invalid report type: ", report_type, ".", "\n",
                  "Please use one of the following: ">>
                \o Join([i \in 1..Len(mapping) |-> <<Keys(mapping)[i]>>], <<", ">>)
                \o <<"\n", "Using default report type: ", default_report_type, " prompt.">>)

get_prompt_by_report_type_on_base_class(mapping, report_type, prompt_family) ==
    LET base == Family("class", "PromptFamily")
        prompt_by_type == GetAttrOrNone(base, Get(mapping, report_type, ""))
    IN IF prompt_by_type = NoMethod
       THEN [warned |-> <<InvalidReportTypeWarning(mapping, report_type, ResearchReport)>>,
             out |-> GetAttr(base, Get(mapping, ResearchReport, NoKey))]
       ELSE [warned |-> <<>>, out |-> Return(prompt_by_type)]

get_prompt_by_report_type_silent_fallback(mapping, report_type, prompt_family) ==
    LET prompt_by_type == GetAttrOrNone(prompt_family, Get(mapping, report_type, ""))
    IN IF prompt_by_type = NoMethod
       THEN [warned |-> <<>>,
             out |-> GetAttr(prompt_family, Get(mapping, ResearchReport, NoKey))]
       ELSE [warned |-> <<>>, out |-> Return(prompt_by_type)]

get_prompt_by_report_type_wrong_default(mapping, report_type, prompt_family) ==
    LET prompt_by_type == GetAttrOrNone(prompt_family, Get(mapping, report_type, ""))
    IN IF prompt_by_type = NoMethod
       THEN [warned |-> <<InvalidReportTypeWarning(mapping, report_type, ResearchReport)>>,
             out |-> GetAttr(prompt_family, Get(mapping, CustomReport, NoKey))]
       ELSE [warned |-> <<>>, out |-> Return(prompt_by_type)]

\* get_prompt_by_report_type(report_type, prompt_family), reading the table mapping:
\* the warnings it emits and its outcome.
get_prompt_by_report_type(mapping, report_type, prompt_family) ==
    LET prompt_by_type == GetAttrOrNone(prompt_family, Get(mapping, report_type, ""))
        default_report_type == ResearchReport
    IN IF prompt_by_type = NoMethod
       THEN [warned |-> <<InvalidReportTypeWarning(mapping, report_type, default_report_type)>>,
             out |-> GetAttr(prompt_family, Get(mapping, default_report_type, NoKey))]
       ELSE [warned |-> <<>>, out |-> Return(prompt_by_type)]

InvalidPromptFamilyWarning(mapping, prompt_family_name) ==
    UserWarning(<<"Invalid prompt family: ">> \o PyStr(prompt_family_name)
                \o <<".", "\n", "Please use one of the following: ">>
                \o Join([i \in 1..Len(mapping) |-> <<Keys(mapping)[i]>>], <<", ">>)
                \o <<"\n", "Using default prompt family: ", DefaultFamilyName, " prompt.">>)

get_prompt_family_keeps_enum_member(mapping, prompt_family_name, config) ==
    LET name == prompt_family_name
        key == IF name.t = "str" /\ Len(name.s) = 1 THEN name.s[1] ELSE ""
    IN IF HasKey(mapping, key)
       THEN [warned |-> <<>>, out |-> NewPromptFamily(Get(mapping, key, ""), <<config>>)]
       ELSE [warned |-> <<InvalidPromptFamilyWarning(mapping, name)>>,
             out |-> NewPromptFamily("PromptFamily", <<>>)]

get_prompt_family_drops_config(mapping, prompt_family_name, config) ==
    LET name == IF prompt_family_name.t = "family_enum"
                THEN StrV(<<PromptFamilyEnumValue(prompt_family_name.s[1])>>)
                ELSE prompt_family_name
        key == IF name.t = "str" /\ Len(name.s) = 1 THEN name.s[1] ELSE ""
    IN IF HasKey(mapping, key)
       THEN [warned |-> <<>>, out |-> NewPromptFamily(Get(mapping, key, ""), <<"None">>)]
       ELSE [warned |-> <<InvalidPromptFamilyWarning(mapping, name)>>,
             out |-> NewPromptFamily("PromptFamily", <<>>)]

\* get_prompt_family(prompt_family_name, config), reading the table mapping:
\* the warnings it emits and its outcome.
get_prompt_family(mapping, prompt_family_name, config) ==
    LET name == IF prompt_family_name.t = "family_enum"
                THEN StrV(<<PromptFamilyEnumValue(prompt_family_name.s[1])>>)
                ELSE prompt_family_name
        key == IF name.t = "str" /\ Len(name.s) = 1 THEN name.s[1] ELSE ""
    IN IF HasKey(mapping, key)
       THEN [warned |-> <<>>, out |-> NewPromptFamily(Get(mapping, key, ""), <<config>>)]
       ELSE [warned |-> <<InvalidPromptFamilyWarning(mapping, name)>>,
             out |-> NewPromptFamily("PromptFamily", <<>>)]

----------------------------------------------------------------------------
(* The templates of the report generators, token by token *)

\* src/gpt_researcher/prompts.py:232-238
report_reference_web ==
    <<"\n">>
    \o <<"You MUST write all used source urls at the end of the report as references", ", and ", "make sure to not add duplicated sources, but only one reference for each", ".", "\n">>
    \o <<"Every url should be hyperlinked: [url website](url)", "\n">>
    \o <<"Additionally, you MUST include hyperlinks to the relevant URLs wherever they are referenced in the report:", "\n">>
    \o <<"\n">>
    \o <<"eg: Author, A. A. (Year, Month Date). Title of web page. Website Name. [url website](url)", "\n">>

\* src/gpt_researcher/prompts.py:240-242
report_reference_documents ==
    <<"\n">>
    \o <<"You MUST write all used source document names at the end of the report as references", ", and ", "make sure to not add duplicated sources, but only one reference for each", ".\"", "\n">>

report_tone_prompt_without_value(tone_value) ==
    <<"Write the report in a ", " tone.">>

\* src/gpt_researcher/prompts.py:244-244
report_tone_prompt(tone_value) ==
    <<"Write the report in a ">> \o tone_value \o <<" tone.">>

\* src/gpt_researcher/prompts.py:246-366
report_template(context, question, total_words, report_format, reference_prompt, tone_prompt, language, today) ==
    <<"\n">>
    \o <<"Information: \"">> \o context \o <<"\"", "\n">>
    \o <<"---", "\n">>
    \o <<"You are a senior retail real estate acquisitions analyst following the rigorous methodology of a net lease REIT acquisition manager. Using the above information, generate a comprehensive acquisition due diligence report for: \"">> \o question \o <<"\"", "\n">>
    \o <<"\n">>
    \o <<"The report should provide a thorough analysis for evaluating this retail location acquisition opportunity. It must be well-structured, data-driven, and comprehensive, with at least ">> \o total_words \o <<" words.", "\n">>
    \o <<"\n">>
    \o <<"REQUIRED REPORT STRUCTURE - Organize findings into these key sections:", "\n">>
    \o <<"\n">>
    \o <<"#", "#", " Executive Summary", "\n">>
    \o <<"Brief overview of the tenant, location, asset quality, and acquisition recommendation with key highlights", "\n">>
    \o <<"\n">>
    \o <<"#", "#", " Tenant Analysis", "\n">>
    \o <<"- Company financial health and credit ratings (investment grade preferred)", "\n">>
    \o <<"- Brand strength and consumer trends (top-performing brands, household penetration)", "\n">>
    \o <<"- Recent corporate developments (CEO changes, restructuring, expansions/closures)", "\n">>
    \o <<"- Store performance and growth strategy", "\n">>
    \o <<"- Lease renewal rates and tenant stability indicators", "\n">>
    \o <<"- Historical performance and growth trajectory", "\n">>
    \o <<"\n">>
    \o <<"#", "#", " Location Quality and Market Analysis (CRITICAL - Highest Priority)", "\n">>
    \o <<"- Detailed demographics: population, household income, age distribution", "\n">>
    \o <<"- Walkability and livability scores (community engagement factors)", "\n">>
    \o <<"- Crime rates and neighborhood safety", "\n">>
    \o <<"- Retail demand drivers: foot traffic, nearby anchors, accessibility", "\n">>
    \o <<"- Market lease rates and comparisons (cite IPA Commercial, Boulder Group when available)", "\n">>
    \o <<"- Cap rate trends and market context (note recent movements)", "\n">>
    \o <<"- Competitive positioning: visibility, accessibility, parking", "\n">>
    \o <<"- Residential development activity: new multifamily projects, breaking ground, permits", "\n">>
    \o <<"- Neighborhood characteristics and quality indicators", "\n">>
    \o <<"- Population growth trends and projections", "\n">>
    \o <<"\n">>
    \o <<"#", "#", " Lease Structure and Terms", "\n">>
    \o <<"- Lease type: NNN (Net Lease), FSG (Full Service Gross), or Modified Gross", "\n">>
    \o <<"- Lease duration and renewal options", "\n">>
    \o <<"- Rent escalations and terms", "\n">>
    \o <<"- Expense pass-throughs", "\n">>
    \o <<"- Below-market rent potential for upside", "\n">>
    \o <<"- Comparison to market lease comps", "\n">>
    \o <<"\n">>
    \o <<"#", "#", " Asset Quality and ESG Considerations", "\n">>
    \o <<"- Building class (A, B, or C)", "\n">>
    \o <<"- Age and condition of the property", "\n">>
    \o <<"- Physical obsolescence or recent renovations", "\n">>
    \o <<"- ESG certifications: LEED, WELL, or GRESB ratings", "\n">>
    \o <<"- Energy efficiency and sustainability features", "\n">>
    \o <<"- ESG lease clauses (energy, water, waste management)", "\n">>
    \o <<"- Long-term asset value enhancement potential", "\n">>
    \o <<"\n">>
    \o <<"#", "#", " Economic Analysis", "\n">>
    \o <<"- Local employment indicators and job market", "\n">>
    \o <<"- Economic health of the area", "\n">>
    \o <<"- Business activity and commercial development", "\n">>
    \o <<"- Consumer spending patterns by income segment (high-income vs. low-income households)", "\n">>
    \o <<"\n">>
    \o <<"#", "#", " Competitive Landscape", "\n">>
    \o <<"- Nearby competitors in the same retail category", "\n">>
    \o <<"- Market saturation analysis", "\n">>
    \o <<"- Competitive advantages/disadvantages of the location", "\n">>
    \o <<"- Similar tenants in the area", "\n">>
    \o <<"\n">>
    \o <<"#", "#", " Sector & Industry Trends", "\n">>
    \o <<"- Retail sector performance and trends (cite Numerator, industry publications when available)", "\n">>
    \o <<"- Category-specific dynamics", "\n">>
    \o <<"- Consumer behavior trends (experiential, community-based retail)", "\n">>
    \o <<"- Industry challenges and opportunities", "\n">>
    \o <<"- Relevant sector news affecting the tenant type", "\n">>
    \o <<"\n">>
    \o <<"#", "#", " Development & Zoning", "\n">>
    \o <<"- New construction and development projects", "\n">>
    \o <<"- Zoning changes or planning updates", "\n">>
    \o <<"- Infrastructure improvements", "\n">>
    \o <<"- Grand openings of complementary businesses", "\n">>
    \o <<"\n">>
    \o <<"#", "#", " Macro-Economic and Market Risk Assessment", "\n">>
    \o <<"- Interest rate environment and cap rate impacts", "\n">>
    \o <<"- Federal Reserve policy trends", "\n">>
    \o <<"- Consumer sentiment and retail sector health", "\n">>
    \o <<"- High-income vs. low-income segment performance", "\n">>
    \o <<"- Supply/demand balance in the market", "\n">>
    \o <<"\n">>
    \o <<"#", "#", " Risk Assessment", "\n">>
    \o <<"- Key risks identified from the research", "\n">>
    \o <<"- Mitigation strategies", "\n">>
    \o <<"- Red flags or concerns", "\n">>
    \o <<"- Demographic and economic headwinds", "\n">>
    \o <<"\n">>
    \o <<"#", "#", " Scoring and Investment Analysis", "\n">>
    \o <<"Present a weighted scoring breakdown (use table format):", "\n">>
    \o <<"- Tenant credit and performance (30% weight)", "\n">>
    \o <<"- Location quality and market dynamics (30% weight)", "\n">>
    \o <<"- Asset quality and ESG compliance (20% weight)", "\n">>
    \o <<"- Lease structure and terms (10% weight)", "\n">>
    \o <<"- Macro-economic risk (10% weight)", "\n">>
    \o <<"\n">>
    \o <<"#", "#", " Acquisition Recommendation", "\n">>
    \o <<"- Clear recommendation (proceed/reconsider/decline)", "\n">>
    \o <<"- Key supporting factors based on scoring", "\n">>
    \o <<"- Projected returns and alignment with portfolio strategy", "\n">>
    \o <<"- Conditions or caveats", "\n">>
    \o <<"- Risk mitigation strategies for proceeding", "\n">>
    \o <<"\n">>
    \o <<"Please follow all of the following guidelines:", "\n">>
    \o <<"- You MUST determine a concrete acquisition recommendation based on the data. Do NOT provide vague conclusions.", "\n">>
    \o <<"- You MUST write the report with markdown syntax and ">> \o report_format \o <<" format.", "\n">>
    \o <<"- Structure your report with clear markdown headers: use ", "#", " for the main title, ", "#", "#", " for major sections, and ", "#", "#", "#", " for subsections.", "\n">>
    \o <<"- Use markdown tables when presenting structured data, demographics, comparisons, or scoring to enhance readability.", "\n">>
    \o <<"- PRIORITIZE location quality (demographics, walkability, development activity) and tenant creditworthiness - these are critical for acquisition decisions.", "\n">>
    \o <<"- You MUST prioritize the relevance, reliability, and significance of the sources. Trusted sources include: Boulder Group, IPA Commercial, GRESB, Numerator, SEC filings, credit rating agencies.", "\n">>
    \o <<"- Prioritize recent articles and data from the past 12 months when available.", "\n">>
    \o <<"- You MUST NOT include a table of contents, but DO include proper markdown headers (", "#", " ", "#", "#", " ", "#", "#", "#", ").", "\n">>
    \o <<"- Use in-text citation references in ">> \o report_format \o <<" format with markdown hyperlinks: ([in-text citation](url)).", "\n">>
    \o <<"- Include specific data points, numbers, statistics, and dates whenever available.", "\n">>
    \o <<"- Don't forget to add a reference list at the end of the report in ">> \o report_format \o <<" format.", "\n">>
    \o <<"- ">> \o reference_prompt \o <<"\n">>
    \o <<"- ">> \o tone_prompt \o <<"\n">>
    \o <<"\n">>
    \o <<"You MUST write the report in the following language: ">> \o language \o <<".", "\n">>
    \o <<"This acquisition analysis is critical for investment decisions and follows best practices for net lease retail real estate due diligence.", "\n">>
    \o <<"Assume that the current date is ">> \o today \o <<".", "\n">>

\* src/gpt_researcher/prompts.py:418-421
resource_reference_web ==
    <<"\n">>
    \o <<"            ", "You MUST include all relevant source urls.", "\n">>
    \o <<"            ", "Every url should be hyperlinked: [url website](url)", "\n">>
    \o <<"            ">>

\* src/gpt_researcher/prompts.py:423-425
resource_reference_documents ==
    <<"\n">>
    \o <<"            ", "You MUST write all used source document names at the end of the report as references", ", and ", "make sure to not add duplicated sources, but only one reference for each", ".\"", "\n">>
    \o <<"        ">>

\* src/gpt_researcher/prompts.py:428-439
resource_template(context, question, total_words, language, reference_prompt) ==
    <<"\"\"\"">> \o context \o <<"\"\"\"", "\n">>
    \o <<"\n">>
    \o <<"Based on the above information, generate a bibliography recommendation report for the following question or topic: \"">> \o question \o <<"\". The report should provide a detailed analysis of each recommended resource, explaining how each source can contribute to finding answers to the research question.", "\n">>
    \o <<"Focus on the relevance, reliability, and significance of each source.", "\n">>
    \o <<"Ensure that the report is well-structured, informative, in-depth, and follows Markdown syntax.", "\n">>
    \o <<"Use markdown tables and other formatting features when appropriate to organize and present information clearly.", "\n">>
    \o <<"Include relevant facts, figures, and numbers whenever available.", "\n">>
    \o <<"The report should have a minimum length of ">> \o total_words \o <<" words.", "\n">>
    \o <<"You MUST write the report in the following language: ">> \o language \o <<".", "\n">>
    \o <<"You MUST include all relevant source urls.", "Every url should be hyperlinked: [url website](url)">> \o reference_prompt

\* src/gpt_researcher/prompts.py:446-446
custom_template(context, query_prompt) ==
    <<"\"">> \o context \o <<"\"", "\n">>
    \o <<"\n">>
    \o query_prompt

\* src/gpt_researcher/prompts.py:459-464
outline_template(context, question, total_words) ==
    <<"\"\"\"">> \o context \o <<"\"\"\" Using the above information, generate an outline for a research report in Markdown syntax for the following question or topic: \"">> \o question \o <<"\". The outline should provide a well-structured framework for the research report, including the main sections, subsections, and key points to be covered. The research report should be detailed, informative, in-depth, and a minimum of ">> \o total_words \o <<" words. Use appropriate Markdown syntax to format the outline and ensure readability. Consider using markdown tables and other formatting features where they would enhance the presentation of information.">>

\* src/gpt_researcher/prompts.py:491-497
deep_reference_web ==
    <<"\n">>
    \o <<"You MUST write all used source urls at the end of the report as references", ", and ", "make sure to not add duplicated sources, but only one reference for each", ".", "\n">>
    \o <<"Every url should be hyperlinked: [url website](url)", "\n">>
    \o <<"Additionally, you MUST include hyperlinks to the relevant URLs wherever they are referenced in the report:", "\n">>
    \o <<"\n">>
    \o <<"eg: Author, A. A. (Year, Month Date). Title of web page. Website Name. [url website](url)", "\n">>

\* src/gpt_researcher/prompts.py:499-501
deep_reference_documents ==
    <<"\n">>
    \o <<"You MUST write all used source document names at the end of the report as references", ", and ", "make sure to not add duplicated sources, but only one reference for each", ".\"", "\n">>

\* src/gpt_researcher/prompts.py:503-503
deep_tone_prompt(tone_value) ==
    <<"Write the report in a ">> \o tone_value \o <<" tone.">>

\* src/gpt_researcher/prompts.py:505-537
deep_template(context, question, total_words, report_format, tone_prompt, language, reference_prompt, now) ==
    <<"\n">>
    \o <<"Using the following hierarchically researched information and citations:", "\n">>
    \o <<"\n">>
    \o <<"\"">> \o context \o <<"\"", "\n">>
    \o <<"\n">>
    \o <<"Write a comprehensive research report answering the query: \"">> \o question \o <<"\"", "\n">>
    \o <<"\n">>
    \o <<"The report should:", "\n">>
    \o <<"1. Synthesize information from multiple levels of research depth", "\n">>
    \o <<"2. Integrate findings from various research branches", "\n">>
    \o <<"3. Present a coherent narrative that builds from foundational to advanced insights", "\n">>
    \o <<"4. Maintain proper citation of sources throughout", "\n">>
    \o <<"5. Be well-structured with clear sections and subsections", "\n">>
    \o <<"6. Have a minimum length of ">> \o total_words \o <<" words", "\n">>
    \o <<"7. Follow ">> \o report_format \o <<" format with markdown syntax", "\n">>
    \o <<"8. Use markdown tables, lists and other formatting features when presenting comparative data, statistics, or structured information", "\n">>
    \o <<"\n">>
    \o <<"Additional requirements:", "\n">>
    \o <<"- Prioritize insights that emerged from deeper levels of research", "\n">>
    \o <<"- Highlight connections between different research branches", "\n">>
    \o <<"- Include relevant statistics, data, and concrete examples", "\n">>
    \o <<"- You MUST determine your own concrete and valid opinion based on the given information. Do NOT defer to general and meaningless conclusions.", "\n">>
    \o <<"- You MUST prioritize the relevance, reliability, and significance of the sources you use. Choose trusted sources over less reliable ones.", "\n">>
    \o <<"- You must also prioritize new articles over older articles if the source can be trusted.", "\n">>
    \o <<"- Use in-text citation references in ">> \o report_format \o <<" format and make it with markdown hyperlink placed at the end of the sentence or paragraph that references them like this: ([in-text citation](url)).", "\n">>
    \o <<"- ">> \o tone_prompt \o <<"\n">>
    \o <<"- Write in ">> \o language \o <<"\n">>
    \o <<"\n">>
    \o reference_prompt \o <<"\n">>
    \o <<"\n">>
    \o <<"Please write a thorough, well-researched report that synthesizes all the gathered information into a cohesive whole.", "\n">>
    \o <<"Assume the current date is ">> \o now \o <<".", "\n">>

\* src/gpt_researcher/prompts.py:683-745
subtopic_template(context, current_subtopic, main_topic, max_subsections, report_format_upper, existing_headers, relevant_written_contents, now, language, total_words, tone_value) ==
    <<"\n">>
    \o <<"Context:", "\n">>
    \o <<"\"">> \o context \o <<"\"", "\n">>
    \o <<"\n">>
    \o <<"Main Topic and Subtopic:", "\n">>
    \o <<"Using the latest information available, construct a detailed report on the subtopic: ">> \o current_subtopic \o <<" under the main topic: ">> \o main_topic \o <<".", "\n">>
    \o <<"You must limit the number of subsections to a maximum of ">> \o max_subsections \o <<".", "\n">>
    \o <<"\n">>
    \o <<"Content Focus:", "\n">>
    \o <<"- The report should focus on answering the question, be well-structured, informative, in-depth, and include facts and numbers if available.", "\n">>
    \o <<"- Use markdown syntax and follow the ">> \o report_format_upper \o <<" format.", "\n">>
    \o <<"- When presenting data, comparisons, or structured information, use markdown tables to enhance readability.", "\n">>
    \o <<"\n">>
    \o <<"IMPORTANT:Content and Sections Uniqueness:", "\n">>
    \o <<"- This part of the instructions is crucial to ensure the content is unique and does not overlap with existing reports.", "\n">>
    \o <<"- Carefully review the existing headers and existing written contents provided below before writing any new subsections.", "\n">>
    \o <<"- Prevent any content that is already covered in the existing written contents.", "\n">>
    \o <<"- Do not use any of the existing headers as the new subsection headers.", "\n">>
    \o <<"- Do not repeat any information already covered in the existing written contents or closely related variations to avoid duplicates.", "\n">>
    \o <<"- If you have nested subsections, ensure they are unique and not covered in the existing written contents.", "\n">>
    \o <<"- Ensure that your content is entirely new and does not overlap with any information already covered in the previous subtopic reports.", "\n">>
    \o <<"\n">>
    \o <<"\"Existing Subtopic Reports\":", "\n">>
    \o <<"- Existing subtopic reports and their section headers:", "\n">>
    \o <<"\n">>
    \o <<"    ">> \o existing_headers \o <<"\n">>
    \o <<"\n">>
    \o <<"- Existing written contents from previous subtopic reports:", "\n">>
    \o <<"\n">>
    \o <<"    ">> \o relevant_written_contents \o <<"\n">>
    \o <<"\n">>
    \o <<"\"Structure and Formatting\":", "\n">>
    \o <<"- As this sub-report will be part of a larger report, include only the main body divided into suitable subtopics without any introduction or conclusion section.", "\n">>
    \o <<"\n">>
    \o <<"- You MUST include markdown hyperlinks to relevant source URLs wherever referenced in the report, for example:", "\n">>
    \o <<"\n">>
    \o <<"    ", "#", "#", "#", " Section Header", "\n">>
    \o <<"\n">>
    \o <<"    This is a sample text ([in-text citation](url)).", "\n">>
    \o <<"\n">>
    \o <<"- Use H2 for the main subtopic header (", "#", "#", ") and H3 for subsections (", "#", "#", "#", ").", "\n">>
    \o <<"- Use smaller Markdown headers (e.g., H2 or H3) for content structure, avoiding the largest header (H1) as it will be used for the larger report's heading.", "\n">>
    \o <<"- Organize your content into distinct sections that complement but do not overlap with existing reports.", "\n">>
    \o <<"- When adding similar or identical subsections to your report, you should clearly indicate the differences between and the new content and the existing written content from previous subtopic reports. For example:", "\n">>
    \o <<"\n">>
    \o <<"    ", "#", "#", "#", " New header (similar to existing header)", "\n">>
    \o <<"\n">>
    \o <<"    While the previous section discussed [topic A], this section will explore [topic B].\"", "\n">>
    \o <<"\n">>
    \o <<"\"Date\":", "\n">>
    \o <<"Assume the current date is ">> \o now \o <<" if required.", "\n">>
    \o <<"\n">>
    \o <<"\"IMPORTANT!\":", "\n">>
    \o <<"- You MUST write the report in the following language: ">> \o language \o <<".", "\n">>
    \o <<"- The focus MUST be on the main topic! You MUST Leave out any information un-related to it!", "\n">>
    \o <<"- Must NOT have any introduction, conclusion, summary or reference section.", "\n">>
    \o <<"- You MUST use in-text citation references in ">> \o report_format_upper \o <<" format and make it with markdown hyperlink placed at the end of the sentence or paragraph that references them like this: ([in-text citation](url)).", "\n">>
    \o <<"- You MUST mention the difference between the existing content and the new content in the report if you are adding the similar or same subsections wherever necessary.", "\n">>
    \o <<"- The report should have a minimum length of ">> \o total_words \o <<" words.", "\n">>
    \o <<"- Use an ">> \o tone_value \o <<" tone throughout the report.", "\n">>
    \o <<"\n">>
    \o <<"Do NOT add a conclusion section.", "\n">>

\* src/gpt_researcher/prompts.py:54-83
tool_selection_template(query, tools_json, max_tools) ==
    <<"You are a research assistant helping to select the most relevant tools for a research query.", "\n">>
    \o <<"\n">>
    \o <<"RESEARCH QUERY: \"">> \o query \o <<"\"", "\n">>
    \o <<"\n">>
    \o <<"AVAILABLE TOOLS:", "\n">>
    \o tools_json \o <<"\n">>
    \o <<"\n">>
    \o <<"TASK: Analyze the tools and select ", "EXACTLY ">> \o max_tools \o <<" tools that are most relevant for researching the given query.", "\n">>
    \o <<"\n">>
    \o <<"SELECTION CRITERIA:", "\n">>
    \o <<"- Choose tools that can provide information, data, or insights related to the query", "\n">>
    \o <<"- Prioritize tools that can search, retrieve, or access relevant content", "\n">>
    \o <<"- Consider tools that complement each other (e.g., different data sources)", "\n">>
    \o <<"- Exclude tools that are clearly unrelated to the research topic", "\n">>
    \o <<"\n">>
    \o <<"Return a JSON object with this exact format:", "\n">>
    \o <<"{", "\n">>
    \o <<"  \"selected_tools\": [", "\n">>
    \o <<"    {", "\n">>
    \o <<"      \"index\": 0,", "\n">>
    \o <<"      \"name\": \"tool_name\",", "\n">>
    \o <<"      \"relevance_score\": 9,", "\n">>
    \o <<"      \"reason\": \"Detailed explanation of why this tool is relevant\"", "\n">>
    \o <<"    }", "\n">>
    \o <<"  ],", "\n">>
    \o <<"  \"selection_reasoning\": \"Overall explanation of the selection strategy\"", "\n">>
    \o <<"}", "\n">>
    \o <<"\n">>
    \o <<"Select exactly ">> \o max_tools \o <<" tools, ranked by relevance to the research query.", "\n">>

\* src/gpt_researcher/prompts.py:143-143
search_task(parent_query, question) ==
    parent_query \o <<" - ">> \o question

\* src/gpt_researcher/prompts.py:147-155
search_context_prompt_with_context(task, context) ==
    <<"\n">>
    \o <<"You are a specialized retail real estate acquisitions research assistant. Your task is to generate comprehensive search queries for: \"">> \o task \o <<"\".", "\n">>
    \o <<"\n">>
    \o <<"The query should specify a tenant/store name and an address/city/state. Parse this information and generate search queries that cover ALL critical dimensions for acquisition analysis:", "\n">>
    \o <<"\n">>
    \o <<"Context: ">> \o context \o <<"\n">>
    \o <<"\n">>
    \o <<"Use this context to inform and refine your search queries. The context provides real-time web information that can help you generate more specific and relevant queries. Consider any current events, recent developments, or specific details mentioned in the context that could enhance the search queries.", "\n">>

\* src/gpt_researcher/prompts.py:155-159
search_context_prompt_without_context(task) ==
    <<"\n">>
    \o <<"You are a specialized retail real estate acquisitions research assistant generating search queries for: \"">> \o task \o <<"\".", "\n">>
    \o <<"\n">>
    \o <<"The query should specify a tenant/store name and an address/city/state. Parse this information and create queries covering ALL dimensions.", "\n">>

\* src/gpt_researcher/prompts.py:161-161
search_query_placeholder(number) ==
    <<"\"query ">> \o number \o <<"\"">>

\* src/gpt_researcher/prompts.py:163-212
search_template(max_iterations, task, context_prompt, now, dynamic_example) ==
    <<"Generate ">> \o max_iterations \o <<" strategic search queries for retail real estate acquisition due diligence on: \"">> \o task \o <<"\"", "\n">>
    \o <<"\n">>
    \o context_prompt \o <<"\n">>
    \o <<"\n">>
    \o <<"CRITICAL: Parse the tenant/store name and location (address/city/state) from the query, then generate searches covering these dimensions:", "\n">>
    \o <<"1. TENANT SCREENING: Credit ratings, brand strength, financial performance, store openings/closures, expansion/contraction plans, lease renewal rates, CEO changes, restructuring", "\n">>
    \o <<"2. LEASE ANALYSIS: Lease structure (NNN, FSG, Modified Gross), lease terms, rent roll, escalation clauses, expense pass-throughs", "\n">>
    \o <<"3. LOCATION QUALITY: Demographics, household income, retail demand drivers, foot traffic, walkability scores, livability scores, crime rates", "\n">>
    \o <<"4. MARKET BENCHMARK: Lease comps, cap rates, occupancy rates, market lease rates, cap rate trends", "\n">>
    \o <<"5. ASSET QUALITY: Building class (A/B/C), age and condition, ESG certifications (LEED, WELL, GRESB)", "\n">>
    \o <<"6. ECONOMIC ANALYSIS: Local employment, economic indicators, business activity, consumer spending patterns", "\n">>
    \o <<"7. COMPETITIVE LANDSCAPE: Nearby competitors, market saturation, similar retailers in area", "\n">>
    \o <<"8. DEVELOPMENT ACTIVITY: New construction, zoning changes, multifamily projects, grand openings, residential development permits", "\n">>
    \o <<"9. MACRO TRENDS: Interest rates, cap rate trends, retail sector health, consumer behavior trends", "\n">>
    \o <<"\n">>
    \o <<"Example Search Query Patterns:", "\n">>
    \o <<"- \"[tenant name] credit rating [current year]\"", "\n">>
    \o <<"- \"[tenant name] lease renewal rate investment grade\"", "\n">>
    \o <<"- \"[tenant name] NNN lease structure expansion\"", "\n">>
    \o <<"- \"[tenant name] store closures CEO change financial performance\"", "\n">>
    \o <<"- \"[property address] walkability score crime rate\"", "\n">>
    \o <<"- \"[city/neighborhood name] demographics household income livability\"", "\n">>
    \o <<"- \"[city/neighborhood name] retail lease comps cap rates [current year]\"", "\n">>
    \o <<"- \"[city/neighborhood name] new residential development multifamily breaking ground\"", "\n">>
    \o <<"- \"[city/neighborhood name] economic indicators employment consumer spending\"", "\n">>
    \o <<"- \"[retail sector] trends consumer behavior [current year]\"", "\n">>
    \o <<"- \"[tenant category] competitors [city/neighborhood]\"", "\n">>
    \o <<"- \"[property address] ESG certification LEED WELL GRESB\"", "\n">>
    \o <<"- \"[city/state] cap rate trends interest rates [current year]\"", "\n">>
    \o <<"- \"[city/neighborhood name] zoning changes infrastructure improvements\"", "\n">>
    \o <<"\n">>
    \o <<"Real Acquisition Manager Search Examples (from institutional net lease REIT methodology):", "\n">>
    \o <<"- \"Kroger credit rating delivery centers closure investment grade\"", "\n">>
    \o <<"- \"CarMax CEO change financial performance lease renewal\"", "\n">>
    \o <<"- \"PNC Bank branch expansion strategy NNN lease\"", "\n">>
    \o <<"- \"Publix growth strategy Florida demographics household penetration\"", "\n">>
    \o <<"- \"[city name] new multifamily development breaking ground permits\"", "\n">>
    \o <<"- \"[neighborhood name] residential development demographics income trends\"", "\n">>
    \o <<"- \"[property address] Boulder Group net lease cap rates\"", "\n">>
    \o <<"- \"[tenant name] Numerator consumer trends brand performance\"", "\n">>
    \o <<"- \"[property address] IPA Commercial lease rates market comps\"", "\n">>
    \o <<"- \"[property address] GRESB ESG certification walkability\"", "\n">>
    \o <<"\n">>
    \o <<"NOTE: Replace placeholders like [tenant name], [property address], [city name], [neighborhood name], [retail sector], [tenant category] with actual parsed values from the research query.", "\n">>
    \o <<"\n">>
    \o <<"Assume the current date is ">> \o now \o <<" if required.", "\n">>
    \o <<"\n">>
    \o <<"You MUST respond with a list of strings in the following format: [">> \o dynamic_example \o <<"].", "\n">>
    \o <<"The response should contain ONLY the list of search query strings, nothing else.", "\n">>

\* The backquote character, which a string of this language cannot hold.
Backquote == "<U+0060>"

\* src/gpt_researcher/prompts.py:370-400
curate_template(query, max_results, sources) ==
    <<"Your goal is to evaluate and curate the provided scraped content for the research task: \"">> \o query \o <<"\"", "\n">>
    \o <<"    while prioritizing the inclusion of relevant and high-quality information, especially sources containing statistics, numbers, or concrete data.", "\n">>
    \o <<"\n">>
    \o <<"The final curated list will be used as context for creating a research report, so prioritize:", "\n">>
    \o <<"- Retaining as much original information as possible, with extra emphasis on sources featuring quantitative data or unique insights", "\n">>
    \o <<"- Including a wide range of perspectives and insights", "\n">>
    \o <<"- Filtering out only clearly irrelevant or unusable content", "\n">>
    \o <<"\n">>
    \o <<"EVALUATION GUIDELINES:", "\n">>
    \o <<"1. Assess each source based on:", "\n">>
    \o <<"   - Relevance: Include sources directly or partially connected to the research query. Err on the side of inclusion.", "\n">>
    \o <<"   - Credibility: Favor authoritative sources but retain others unless clearly untrustworthy.", "\n">>
    \o <<"   - Currency: Prefer recent information unless older data is essential or valuable.", "\n">>
    \o <<"   - Objectivity: Retain sources with bias if they provide a unique or complementary perspective.", "\n">>
    \o <<"   - Quantitative Value: Give higher priority to sources with statistics, numbers, or other concrete data.", "\n">>
    \o <<"2. Source Selection:", "\n">>
    \o <<"   - Include as many relevant sources as possible, ", "up to ">> \o max_results \o <<", focusing on broad coverage and diversity.", "\n">>
    \o <<"   - Prioritize sources with statistics, numerical data, or verifiable facts.", "\n">>
    \o <<"   - Overlapping content is acceptable if it adds depth, especially when data is involved.", "\n">>
    \o <<"   - Exclude sources only if they are entirely irrelevant, severely outdated, or unusable due to poor content quality.", "\n">>
    \o <<"3. Content Retention:", "\n">>
    \o <<"   - DO NOT rewrite, summarize, or condense any source content.", "\n">>
    \o <<"   - Retain all usable information, cleaning up only clear garbage or formatting issues.", "\n">>
    \o <<"   - Keep marginally relevant or incomplete sources if they contain valuable data or insights.", "\n">>
    \o <<"\n">>
    \o <<"SOURCES LIST TO EVALUATE:", "\n">>
    \o sources \o <<"\n">>
    \o <<"\n">>
    \o <<"You MUST return your response in the EXACT sources JSON list format as the original sources.", "\n">>
    \o <<"The response MUST not contain any markdown format or additional text (like ", Backquote, Backquote, Backquote, "json), just the JSON list!", "\n">>

\* src/gpt_researcher/prompts.py:105-118
mcp_research_template(query, tool_names) ==
    <<"You are a research assistant with access to specialized tools. Your task is to research the following query and provide comprehensive, accurate information.", "\n">>
    \o <<"\n">>
    \o <<"RESEARCH QUERY: \"">> \o query \o <<"\"", "\n">>
    \o <<"\n">>
    \o <<"INSTRUCTIONS:", "\n">>
    \o <<"1. Use the available tools to gather relevant information about the query", "\n">>
    \o <<"2. Call multiple tools if needed to get comprehensive coverage", "\n">>
    \o <<"3. If a tool call fails or returns empty results, try alternative approaches", "\n">>
    \o <<"4. Synthesize information from multiple sources when possible", "\n">>
    \o <<"5. Focus on factual, relevant information that directly addresses the query", "\n">>
    \o <<"\n">>
    \o <<"AVAILABLE TOOLS: ">> \o tool_names \o <<"\n">>
    \o <<"\n">>
    \o <<"Please conduct thorough research and provide your findings. Use the tools strategically to gather the most relevant and comprehensive information.">>

\* src/gpt_researcher/prompts.py:632-632
docs_separator ==
    <<"\n">>

\* src/gpt_researcher/prompts.py:632-634
doc_template(source, title, page_content) ==
    <<"Source: ">> \o source \o <<"\n">>
    \o <<"Title: ">> \o title \o <<"\n">>
    \o <<"Content: ">> \o page_content \o <<"\n">>

----------------------------------------------------------------------------
(* Calling a generator *)

Param(name, default) == [name |-> name, default |-> default]

\* The parameters of each generator, in the order of its def.
Params(generator) ==
    CASE generator = "generate_report_prompt" ->
            << Param("question", Required), Param("context", Required),
               Param("report_source", Required), Param("report_format", StrV(<<"apa">>)),
               Param("total_words", IntV("1000")), Param("tone", NoneValue),
               Param("language", StrV(<<"english">>)) >>
      [] generator = "generate_resource_report_prompt" ->
            << Param("question", Required), Param("context", Required),
               Param("report_source", Required), Param("report_format", StrV(<<"apa">>)),
               Param("tone", NoneValue), Param("total_words", IntV("1000")),
               Param("language", StrV(<<"english">>)) >>
      [] generator = "generate_custom_report_prompt" ->
            << Param("query_prompt", Required), Param("context", Required),
               Param("report_source", Required), Param("report_format", StrV(<<"apa">>)),
               Param("tone", NoneValue), Param("total_words", IntV("1000")),
               Param("language", StrV(<<"english">>)) >>
      [] generator = "generate_outline_report_prompt" ->
            << Param("question", Required), Param("context", Required),
               Param("report_source", Required), Param("report_format", StrV(<<"apa">>)),
               Param("tone", NoneValue), Param("total_words", IntV("1000")),
               Param("language", StrV(<<"english">>)) >>
      [] generator = "generate_deep_research_prompt" ->
            << Param("question", Required), Param("context", Required),
               Param("report_source", Required), Param("report_format", StrV(<<"apa">>)),
               Param("tone", NoneValue), Param("total_words", IntV("2000")),
               Param("language", StrV(<<"english">>)) >>
      [] generator = "generate_subtopic_report_prompt" ->
            << Param("current_subtopic", Required), Param("existing_headers", Required),
               Param("relevant_written_contents", Required), Param("main_topic", Required),
               Param("context", Required), Param("report_format", StrV(<<"apa">>)),
               Param("max_subsections", IntV("5")), Param("total_words", IntV("800")),
               Param("tone", ToneMember("Objective")), Param("language", StrV(<<"english">>)) >>
      [] generator = "generate_mcp_tool_selection_prompt" ->
            << Param("query", Required), Param("tools_info", Required),
               Param("max_tools", IntV("3")) >>
      [] generator = "generate_search_queries_prompt" ->
            << Param("question", Required), Param("parent_query", Required),
               Param("report_type", Required), Param("max_iterations", IntV("3")),
               Param("context", ListOfStr(default_context)) >>
      [] generator = "curate_sources" ->
            << Param("query", Required), Param("sources", Required),
               Param("max_results", IntV("10")) >>
      [] generator = "generate_mcp_research_prompt" ->
            << Param("query", Required), Param("selected_tools", Required) >>
      [] generator = "pretty_print_docs" ->
            << Param("docs", Required), Param("top_n", NoneValue) >>

ParamNames(params) == { params[i].name : i \in 1..Len(params) }

ParamIndex(params, name) == CHOOSE i \in 1..Len(params) : params[i].name = name

\* Python's binding of a call's positional arguments pos and keyword arguments kw
\* to params succeeds: no argument too many, none unknown, none given twice,
\* and none missing.
BindOk(params, pos, kw) ==
    /\ Len(pos) <= Len(params)
    /\ DOMAIN kw \subseteq ParamNames(params)
    /\ \A n \in DOMAIN kw : ParamIndex(params, n) > Len(pos)
    /\ \A i \in (Len(pos) + 1)..Len(params) :
          params[i].name \in DOMAIN kw \/ params[i].default.t /= "required"

\* The value of each parameter after binding.
Bind(params, pos, kw) ==
    [n \in ParamNames(params) |->
        LET i == ParamIndex(params, n)
        IN IF i <= Len(pos) THEN pos[i]
           ELSE IF n \in DOMAIN kw THEN kw[n]
           ELSE params[i].default]

\* v has the attribute value: v is an enum member.
HasValueAttr(v) == v.t \in {"tone", "family_enum"}

\* v.value
ValueAttr(v) ==
    CASE v.t = "tone" -> <<ToneValue(v.s[1])>>
      [] v.t = "family_enum" -> <<PromptFamilyEnumValue(v.s[1])>>

\* str.upper(), token by token.
UpperToken(c) ==
    CASE c = "apa" -> "APA"
      [] c = "mla" -> "MLA"
      [] c = "a" -> "A"
      [] c = "#" -> "#"
      [] c = "\n" -> "\n"

Upper(text) == [i \in 1..Len(text) |-> UpperToken(text[i])]

\* The dates the clock takes.
Dates == {"2026-11-02", "2026-11-03"}

\* str(date.today())
IsoDate(day) == <<day>>

\* datetime.now(timezone.utc).strftime('%B %d, %Y')
LongDate(day) ==
    CASE day = "2026-11-02" -> <<"November 02, 2026">>
      [] day = "2026-11-03" -> <<"November 03, 2026">>

generate_report_prompt(b, day) ==
    LET reference_prompt ==
            IF PyEq(b.report_source, StrV(<<Web>>))
            THEN report_reference_web ELSE report_reference_documents
    IN IF Truthy(b.tone) /\ ~HasValueAttr(b.tone) THEN Raise("AttributeError")
       ELSE LET tone_prompt ==
                    IF Truthy(b.tone) THEN report_tone_prompt(ValueAttr(b.tone)) ELSE <<>>
            IN Return(report_template(PyStr(b.context), PyStr(b.question),
                                      PyStr(b.total_words), PyStr(b.report_format),
                                      reference_prompt, tone_prompt, PyStr(b.language),
                                      IsoDate(day)))

generate_resource_report_prompt(b, day) ==
    LET reference_prompt ==
            IF PyEq(b.report_source, StrV(<<Web>>))
            THEN resource_reference_web ELSE resource_reference_documents
    IN Return(resource_template(PyStr(b.context), PyStr(b.question), PyStr(b.total_words),
                                PyStr(b.language), reference_prompt))

generate_custom_report_prompt(b, day) ==
    Return(custom_template(PyStr(b.context), PyStr(b.query_prompt)))

generate_outline_report_prompt(b, day) ==
    Return(outline_template(PyStr(b.context), PyStr(b.question), PyStr(b.total_words)))

generate_deep_research_prompt(b, day) ==
    LET reference_prompt ==
            IF PyEq(b.report_source, StrV(<<Web>>))
            THEN deep_reference_web ELSE deep_reference_documents
    IN IF Truthy(b.tone) /\ ~HasValueAttr(b.tone) THEN Raise("AttributeError")
       ELSE LET tone_prompt ==
                    IF Truthy(b.tone) THEN deep_tone_prompt(ValueAttr(b.tone)) ELSE <<>>
            IN Return(deep_template(PyStr(b.context), PyStr(b.question),
                                    PyStr(b.total_words), PyStr(b.report_format),
                                    tone_prompt, PyStr(b.language), reference_prompt,
                                    LongDate(day)))

generate_subtopic_report_prompt_context_on_own_line(b, day) ==
    IF b.report_format.t /= "str" \/ ~HasValueAttr(b.tone) THEN Raise("AttributeError")
    ELSE Return(subtopic_template(<<"\n">> \o PyStr(b.context), PyStr(b.current_subtopic),
                                  PyStr(b.main_topic), PyStr(b.max_subsections),
                                  Upper(b.report_format.s), PyStr(b.existing_headers),
                                  PyStr(b.relevant_written_contents), LongDate(day),
                                  PyStr(b.language), PyStr(b.total_words),
                                  ValueAttr(b.tone)))

generate_subtopic_report_prompt(b, day) ==
    IF b.report_format.t /= "str" \/ ~HasValueAttr(b.tone) THEN Raise("AttributeError")
    ELSE Return(subtopic_template(PyStr(b.context), PyStr(b.current_subtopic),
                                  PyStr(b.main_topic), PyStr(b.max_subsections),
                                  Upper(b.report_format.s), PyStr(b.existing_headers),
                                  PyStr(b.relevant_written_contents), LongDate(day),
                                  PyStr(b.language), PyStr(b.total_words),
                                  ValueAttr(b.tone)))

generate_mcp_research_prompt_string_forms(b, day) ==
    LET tools == b.selected_tools.l
        tool_names == [i \in 1..Len(tools) |-> StrOfTool(tools[i])]
    IN IF b.selected_tools.t /= "tools" THEN Raise("TypeError")
       ELSE Return(mcp_research_template(PyStr(b.query), PyStr(ListOfStr(tool_names))))

\* selected_tools is a list of tool references; a value that cannot be iterated
\* raises TypeError.
generate_mcp_research_prompt(b, day) ==
    LET tools == b.selected_tools.l
        tool_names ==
            [i \in 1..Len(tools) |->
                IF HasNameAttr(tools[i]) THEN NameAttr(tools[i]) ELSE StrOfTool(tools[i])]
    IN IF b.selected_tools.t /= "tools" THEN Raise("TypeError")
       ELSE Return(mcp_research_template(PyStr(b.query), PyStr(ListOfStr(tool_names))))

\* The texts of the documents of docs whose index i (from 0) is in kept, in order.
RECURSIVE RenderKept(_, _, _)
RenderKept(docs, i, kept) ==
    IF i >= Len(docs) THEN <<>>
    ELSE LET d == docs[i + 1]
             rest == RenderKept(docs, i + 1, kept)
         IN IF i \in kept
            THEN <<doc_template(MetadataGet(d, "source"), MetadataGet(d, "title"),
                                PageContent(d))>> \o rest
            ELSE rest

pretty_print_docs_zero_means_all(b, day) ==
    LET top_n == b.top_n
        kept == { i \in 0..(Len(b.docs.l) - 1) : ~Truthy(top_n) \/ i < IntNum(top_n) }
    IN IF b.docs.t /= "docs" \/ top_n.t \notin {"none", "int"} THEN Raise("TypeError")
       ELSE Return(Join(RenderKept(b.docs.l, 0, kept), docs_separator))

\* docs is a list of Documents and top_n is None or an int; other values raise.
pretty_print_docs(b, day) ==
    LET top_n == b.top_n
        kept == { i \in 0..(Len(b.docs.l) - 1) : top_n.t = "none" \/ i < IntNum(top_n) }
    IN IF b.docs.t /= "docs" \/ top_n.t \notin {"none", "int"} THEN Raise("TypeError")
       ELSE Return(Join(RenderKept(b.docs.l, 0, kept), docs_separator))

\* The items of a list, last to first.
Reversed(items) == [i \in 1..Len(items) |-> items[Len(items) + 1 - i]]

generate_mcp_tool_selection_prompt_catalog_reversed(b, day) ==
    IF ~JsonSerializable(b.tools_info) THEN Raise("TypeError")
    ELSE Return(tool_selection_template(PyStr(b.query),
                                        JsonDumps([b.tools_info EXCEPT !.l = Reversed(@)]),
                                        PyStr(b.max_tools)))

generate_mcp_tool_selection_prompt(b, day) ==
    IF ~JsonSerializable(b.tools_info) THEN Raise("TypeError")
    ELSE Return(tool_selection_template(PyStr(b.query), JsonDumps(b.tools_info),
                                        PyStr(b.max_tools)))

DynamicExample_from_zero(n) ==
    Join([k \in 1..n |-> search_query_placeholder(<<ToString(k - 1)>>)], <<", ">>)

\* ", ".join of the placeholders "query 1" ... "query n" (none for n <= 0).
DynamicExample(n) ==
    Join([k \in 1..n |-> search_query_placeholder(<<ToString((k - 1) + 1)>>)], <<", ">>)

generate_search_queries_prompt_detailed_only(b, day) ==
    LET task ==
            IF PyEq(b.report_type, StrV(<<DetailedReport>>))
            THEN search_task(PyStr(b.parent_query), PyStr(b.question))
            ELSE PyStr(b.question)
        context_prompt ==
            IF Truthy(b.context)
            THEN search_context_prompt_with_context(task, PyStr(b.context))
            ELSE search_context_prompt_without_context(task)
    IN IF b.max_iterations.t /= "int" THEN Raise("TypeError")
       ELSE Return(search_template(PyStr(b.max_iterations), task, context_prompt,
                                   LongDate(day),
                                   DynamicExample(IntNum(b.max_iterations))))

generate_search_queries_prompt(b, day) ==
    LET task ==
            IF \/ PyEq(b.report_type, StrV(<<DetailedReport>>))
               \/ PyEq(b.report_type, StrV(<<SubtopicReport>>))
            THEN search_task(PyStr(b.parent_query), PyStr(b.question))
            ELSE PyStr(b.question)
        context_prompt ==
            IF Truthy(b.context)
            THEN search_context_prompt_with_context(task, PyStr(b.context))
            ELSE search_context_prompt_without_context(task)
    IN IF b.max_iterations.t /= "int" THEN Raise("TypeError")
       ELSE Return(search_template(PyStr(b.max_iterations), task, context_prompt,
                                   LongDate(day),
                                   DynamicExample(IntNum(b.max_iterations))))

curate_sources_caps_at_source_count(b, day) ==
    Return(curate_template(PyStr(b.query), PyStr(IntOf(Len(b.sources.l))), PyStr(b.sources)))

curate_sources(b, day) ==
    Return(curate_template(PyStr(b.query), PyStr(b.max_results), PyStr(b.sources)))

\* The call generator(*pos, **kw) of a method of class PromptFamily on the day given.
CallGenerator(generator, pos, kw, day) ==
    LET params == Params(generator)
    IN IF ~BindOk(params, pos, kw) THEN Raise("TypeError")
       ELSE LET b == Bind(params, pos, kw)
            IN CASE generator = "generate_report_prompt" -> generate_report_prompt(b, day)
                 [] generator = "generate_resource_report_prompt" ->
                        generate_resource_report_prompt(b, day)
                 [] generator = "generate_custom_report_prompt" ->
                        generate_custom_report_prompt(b, day)
                 [] generator = "generate_outline_report_prompt" ->
                        generate_outline_report_prompt(b, day)
                 [] generator = "generate_deep_research_prompt" ->
                        generate_deep_research_prompt(b, day)
                 [] generator = "generate_subtopic_report_prompt" ->
                        generate_subtopic_report_prompt(b, day)
                 [] generator = "generate_mcp_tool_selection_prompt" ->
                        generate_mcp_tool_selection_prompt(b, day)
                 [] generator = "generate_search_queries_prompt" ->
                        generate_search_queries_prompt(b, day)
                 [] generator = "curate_sources" -> curate_sources(b, day)
                 [] generator = "generate_mcp_research_prompt" ->
                        generate_mcp_research_prompt(b, day)
                 [] generator = "pretty_print_docs" -> pretty_print_docs(b, day)

\* No keyword arguments.
NoKeywords == [n \in {} |-> NoneValue]

\* PROMPT_GENERATOR: the arguments of a prompt generator, in the declared order.
PROMPT_GENERATOR ==
    <<"question", "context", "report_source", "report_format", "tone", "total_words",
      "language">>

\* The first given of the arguments a by position.
FirstPositional(a, given) == [i \in 1..given |-> a[PROMPT_GENERATOR[i]]]

\* The arguments of a after the first given, by name.
RestByName(a, given) ==
    [n \in { PROMPT_GENERATOR[i] : i \in (given + 1)..Len(PROMPT_GENERATOR) } |-> a[n]]

----------------------------------------------------------------------------
(* The inputs of the calls *)

\* Report-type identifiers: the keys of the table and two that are not keys.
ReportTypes ==
    { ResearchReport, ResourceReport, OutlineReport, CustomReport, SubtopicReport,
      DeepResearch, DetailedReport, "bogus_type" }

\* Prompt-family names: a str or a member of PromptFamilyEnum.
FamilyNames ==
    { StrV(<<DefaultFamilyName>>), StrV(<<"bogus_family">>), FamilyEnumMember("Default") }

Configs == {"config_a", "config_b"}

\* The arguments of a prompt generator, a record over PROMPT_GENERATOR.
GeneratorArgs ==
    [ question : { StrV(<<>>), StrV(<<"Starbucks, 100 Main St, Austin TX">>) },
      context : { StrV(<<>>), StrV(<<"Scraped research context.">>) },
      report_source : { StrV(<<Web>>), StrV(<<"documents">>) },
      report_format : { StrV(<<"apa">>) },
      tone : { NoneValue, ToneMember("Objective"), ToneMember("Formal") },
      total_words : { IntV("1000") },
      language : { StrV(<<"english">>), StrV(<<"german">>) } ]

\* How many of the arguments a caller gives by position; it names the others.
Givens == {3, 7}

\* The characters of an input text of a direct generator call.
Chars == {"a", "#", "\n"}

\* The texts of at most n characters.
Texts(n) == UNION { [1..k -> Chars] : k \in 0..n }

\* Direct calls of generate_subtopic_report_prompt, its arguments given by name.
SubtopicCalls ==
    { [ generator |-> "generate_subtopic_report_prompt",
        pos |-> <<>>,
        kw |-> [ current_subtopic |-> StrV(cs), existing_headers |-> eh,
                 relevant_written_contents |-> rw, main_topic |-> StrV(mt),
                 context |-> StrV(cx), language |-> StrV(lg) ] ] :
        cx \in Texts(MaxLen),
        cs \in { <<"a">>, <<"\n", "#">> },
        mt \in { <<"a">>, <<"\n", "#">> },
        lg \in { <<"a">>, <<"\n", "#">> },
        eh \in { ListOfStr(<<>>), ListOfStr(<< <<"\n", "#">> >>), StrV(<<"\n", "#", "a">>) },
        rw \in { ListOfStr(<< <<"a">>, <<"#">> >>), StrV(<<"\n", "#", "#">>) } }

\* The question of a direct call.
Question == StrV(<<"Starbucks, 100 Main St, Austin TX">>)

\* An argument that is given by name or left to its default.
Optional(name, values) == {NoKeywords} \cup { name :> v : v \in values }

\* Direct calls of generate_search_queries_prompt, its arguments given by name.
SearchCalls ==
    { [ generator |-> "generate_search_queries_prompt",
        pos |-> <<>>,
        kw |-> [ question |-> Question, parent_query |-> StrV(pq),
                 report_type |-> StrV(<<rt>>) ] @@ mi @@ cx ] :
        pq \in { <<"Net lease portfolio review">>, <<"Austin retail corridor">> },
        rt \in { ResearchReport, DetailedReport, SubtopicReport, "bogus_type" },
        mi \in Optional("max_iterations", { IntOf(n) : n \in 0..MaxIterations }),
        cx \in Optional("context",
                        { ListOfStr(<<>>), ListOfStr(<< <<"Store closures announced">> >>) }) }

\* The tools of a catalog.
Tools ==
    { <<"name", "web_search", "description", "Search the web">>,
      <<"name", "fetch_url", "description", "Fetch a page">>,
      <<>> }

\* The sequences over a set of at most n elements.
SeqsUpTo(set, n) == UNION { [1..k -> set] : k \in 0..n }

\* Direct calls of generate_mcp_tool_selection_prompt, its arguments given by name.
ToolSelectionCalls ==
    { [ generator |-> "generate_mcp_tool_selection_prompt",
        pos |-> <<>>,
        kw |-> [ query |-> Question, tools_info |-> ListOfDict(tools) ] @@ mt ] :
        tools \in SeqsUpTo(Tools, MaxTools),
        mt \in Optional("max_tools", { IntOf(n) : n \in 0..(MaxTools + 1) }) }

\* The candidate sources of a curation.
Sources ==
    { <<"url", "https://a.example/report", "raw_content", "Q3 sales rose 4%">>,
      <<"url", "https://b.example/news", "raw_content", "Two stores closed">> }

\* Direct calls of curate_sources, its arguments given by name.
CurateCalls ==
    { [ generator |-> "curate_sources",
        pos |-> <<>>,
        kw |-> [ query |-> Question, sources |-> ListOfDict(sources) ] @@ mr ] :
        sources \in SeqsUpTo(Sources, MaxSources),
        mr \in Optional("max_results", { IntOf(n) : n \in 0..(MaxSources + 3) }) }

\* Direct calls of the two generators that read the date and take a tone.
ReportCalls ==
    { [ generator |-> g,
        pos |-> <<>>,
        kw |-> [ question |-> Question, context |-> StrV(<<"Scraped research context.">>),
                 report_source |-> StrV(<<Web>>) ] @@ tn ] :
        g \in { "generate_report_prompt", "generate_deep_research_prompt" },
        tn \in Optional("tone", { NoneValue, ToneMember("Formal") }) }

\* The tool references of a selection.
ToolRefs ==
    { <<"named", "web_search", "<Tool web_search>">>,
      <<"object", "<object without a name>">>,
      <<"str", "fetch_url">> }

\* Direct calls of generate_mcp_research_prompt, its arguments given by name.
ResearchCalls ==
    { [ generator |-> "generate_mcp_research_prompt",
        pos |-> <<>>,
        kw |-> [ query |-> Question, selected_tools |-> ListOfTool(tools) ] ] :
        tools \in SeqsUpTo(ToolRefs, MaxTools) }

\* The documents of a retrieval; the third has no title.
Docs ==
    { <<"Cap rates fell in Q3.", "source", "https://a.example/caps", "title", "Cap rates">>,
      <<"Two stores closed.", "source", "https://b.example/news", "title", "Closures">>,
      <<"Lease renewed to 2035.", "source", "lease.pdf">> }

\* Direct calls of pretty_print_docs, its arguments given by name.
PrettyPrintCalls ==
    { [ generator |-> "pretty_print_docs",
        pos |-> <<>>,
        kw |-> [ docs |-> ListOfDoc(docs) ] @@ tn ] :
        docs \in SeqsUpTo(Docs, MaxDocs),
        tn \in Optional("top_n", {NoneValue} \cup { IntOf(n) : n \in -1..(MaxDocs + 1) }) }

\* The direct calls a caller prepares.
PreparedCalls ==
    SearchCalls \cup ToolSelectionCalls \cup CurateCalls \cup ReportCalls \cup ResearchCalls
    \cup PrettyPrintCalls

----------------------------------------------------------------------------
(* The state machine *)

NoPending == [generator |-> "", pos |-> <<>>, kw |-> NoKeywords]

NoCall ==
    [ op |-> "none", report_type |-> "", prompt_family |-> Family("class", "PromptFamily"),
      prompt_family_name |-> NoneValue, config |-> "", method |-> NoMethod,
      given |-> 0, args |-> NoKeywords, pos |-> <<>>, kw |-> NoKeywords,
      day |-> "", out |-> Return(<<>>), warned |-> <<>> ]

\* The caller has kept no call.
NoSeen == [call |-> NoCall, warnings |-> 0]

\* The module has been imported; nothing has been called.
Init ==
    /\ report_type_mapping = ReportTypeMapping
    /\ prompt_family_mapping = PromptFamilyMapping
    /\ warnings = 0
    /\ clock \in Dates
    /\ pending = NoPending
    /\ last = NoCall
    /\ default_context = <<>>
    /\ seen = NoSeen
    /\ unregistered_calls = 0

CallGetPromptByReportType_registers_identifier(report_type, prompt_family) ==
    /\ warnings < MaxWarnings
    /\ LET r == get_prompt_by_report_type(report_type_mapping, report_type, prompt_family)
       IN /\ warnings' = warnings + Len(r.warned)
          /\ last' = [NoCall EXCEPT !.op = "get_prompt_by_report_type",
                                    !.report_type = report_type,
                                    !.prompt_family = prompt_family,
                                    !.out = r.out,
                                    !.warned = r.warned]
    /\ report_type_mapping' =
          IF HasKey(report_type_mapping, report_type) THEN report_type_mapping
          ELSE Append(report_type_mapping, <<report_type, "generate_report_prompt">>)
    /\ unregistered_calls' =
          unregistered_calls + IF HasKey(report_type_mapping, report_type) THEN 0 ELSE 1
    /\ UNCHANGED <<prompt_family_mapping, clock, pending, default_context, seen>>

\* A call get_prompt_by_report_type(report_type, prompt_family).
CallGetPromptByReportType(report_type, prompt_family) ==
    /\ warnings < MaxWarnings
    /\ LET r == get_prompt_by_report_type(report_type_mapping, report_type, prompt_family)
       IN /\ warnings' = warnings + Len(r.warned)
          /\ last' = [NoCall EXCEPT !.op = "get_prompt_by_report_type",
                                    !.report_type = report_type,
                                    !.prompt_family = prompt_family,
                                    !.out = r.out,
                                    !.warned = r.warned]
    /\ unregistered_calls' =
          unregistered_calls + IF HasKey(report_type_mapping, report_type) THEN 0 ELSE 1
    /\ UNCHANGED <<report_type_mapping, prompt_family_mapping, clock, pending,
                   default_context, seen>>

\* A call get_prompt_family(prompt_family_name, config).
CallGetPromptFamily(prompt_family_name, config) ==
    /\ warnings < MaxWarnings
    /\ LET r == get_prompt_family(prompt_family_mapping, prompt_family_name, config)
       IN /\ warnings' = warnings + Len(r.warned)
          /\ last' = [NoCall EXCEPT !.op = "get_prompt_family",
                                    !.prompt_family_name = prompt_family_name,
                                    !.config = config,
                                    !.out = r.out,
                                    !.warned = r.warned]
    /\ UNCHANGED <<report_type_mapping, prompt_family_mapping, clock, pending,
                   default_context, seen, unregistered_calls>>

\* The caller invokes the generator get_prompt_by_report_type has just returned,
\* with the arguments a, the first given of them by position.
CallResolvedGenerator(a, given) ==
    /\ last.op = "get_prompt_by_report_type"
    /\ last.out.kind = "return"
    /\ last.out.val /= NoMethod
    /\ last.out.val[1] = "PromptFamily"
    /\ LET pos == FirstPositional(a, given)
           kw == RestByName(a, given)
       IN last' = [NoCall EXCEPT !.op = "generator",
                                 !.report_type = last.report_type,
                                 !.prompt_family = last.prompt_family,
                                 !.method = last.out.val,
                                 !.given = given,
                                 !.args = a,
                                 !.pos = pos,
                                 !.kw = kw,
                                 !.day = clock,
                                 !.out = CallGenerator(last.out.val[2], pos, kw, clock)]
    /\ UNCHANGED <<report_type_mapping, prompt_family_mapping, warnings, clock, pending,
                   default_context, seen, unregistered_calls>>

CallPending_grows_default_context ==
    /\ pending /= NoPending
    /\ last' = [NoCall EXCEPT !.op = "generator",
                              !.method = Method("PromptFamily", pending.generator),
                              !.pos = pending.pos,
                              !.kw = pending.kw,
                              !.day = clock,
                              !.out = CallGenerator(pending.generator, pending.pos,
                                                    pending.kw, clock)]
    /\ default_context' =
          IF "context" \in DOMAIN pending.kw \/ default_context /= <<>>
          THEN default_context
          ELSE Append(default_context, <<"Store closures announced">>)
    /\ UNCHANGED <<report_type_mapping, prompt_family_mapping, warnings, clock, pending,
                   seen, unregistered_calls>>

\* The caller makes the direct generator call it has prepared.
CallPending ==
    /\ pending /= NoPending
    /\ last' = [NoCall EXCEPT !.op = "generator",
                              !.method = Method("PromptFamily", pending.generator),
                              !.pos = pending.pos,
                              !.kw = pending.kw,
                              !.day = clock,
                              !.out = CallGenerator(pending.generator, pending.pos,
                                                    pending.kw, clock)]
    /\ UNCHANGED <<report_type_mapping, prompt_family_mapping, warnings, clock, pending,
                   default_context, seen, unregistered_calls>>

\* The date changes.
Tick ==
    /\ clock' \in Dates \ {clock}
    /\ UNCHANGED <<report_type_mapping, prompt_family_mapping, warnings, pending, last,
                   default_context, seen, unregistered_calls>>

Next ==
    \/ \E report_type \in ReportTypes, prompt_family \in Families :
          CallGetPromptByReportType(report_type, prompt_family)
    \/ \E prompt_family_name \in FamilyNames, config \in Configs :
          CallGetPromptFamily(prompt_family_name, config)
    \/ \E a \in GeneratorArgs, given \in Givens : CallResolvedGenerator(a, given)
    \/ Tick

Spec == Init /\ [][Next]_vars

\* Direct calls of generate_subtopic_report_prompt with the arguments drawn at the start.
InitSubtopic ==
    /\ report_type_mapping = ReportTypeMapping
    /\ prompt_family_mapping = PromptFamilyMapping
    /\ warnings = 0
    /\ clock \in Dates
    /\ pending \in SubtopicCalls
    /\ last = NoCall
    /\ default_context = <<>>
    /\ seen = NoSeen
    /\ unregistered_calls = 0

NextSubtopic ==
    \/ CallPending
    \/ Tick

SpecSubtopic == InitSubtopic /\ [][NextSubtopic]_vars

\* The caller keeps the generator call just made, to compare a later one with it.
Observe ==
    /\ last.op = "generator"
    /\ seen' = [call |-> last, warnings |-> warnings]
    /\ seen' /= seen
    /\ UNCHANGED <<report_type_mapping, prompt_family_mapping, warnings, clock, pending,
                   last, default_context, unregistered_calls>>

\* Direct calls of one generator with the arguments drawn at the start, interleaved
\* with calls of the two resolvers.
InitCalls ==
    /\ report_type_mapping = ReportTypeMapping
    /\ prompt_family_mapping = PromptFamilyMapping
    /\ warnings = 0
    /\ clock \in Dates
    /\ pending \in PreparedCalls
    /\ last = NoCall
    /\ default_context = <<>>
    /\ seen = NoSeen
    /\ unregistered_calls = 0

NextCalls ==
    \/ CallPending
    \/ Observe
    \/ \E report_type \in { SubtopicReport, "bogus_type" },
          prompt_family \in { Family("class", "PromptFamily"), Family("instance", "Partial") } :
          CallGetPromptByReportType(report_type, prompt_family)
    \/ \E prompt_family_name \in { StrV(<<"bogus_family">>), FamilyEnumMember("Default") } :
          CallGetPromptFamily(prompt_family_name, "config_a")
    \/ Tick

SpecCalls == InitCalls /\ [][NextCalls]_vars

\* The base PromptFamily, as the class and as an instance of it.
BaseFamilies == { Family(k, "PromptFamily") : k \in {"class", "instance"} }

\* Calls of get_prompt_by_report_type against the base PromptFamily only, each
\* followed or not by a call of the generator it returned.
NextBase ==
    \/ \E report_type \in ReportTypes, prompt_family \in BaseFamilies :
          CallGetPromptByReportType(report_type, prompt_family)
    \/ \E a \in GeneratorArgs, given \in Givens : CallResolvedGenerator(a, given)
    \/ Tick

SpecBase == Init /\ [][NextBase]_vars

----------------------------------------------------------------------------
(* Properties of the resolvers *)

\* The last call was get_prompt_by_report_type.
ResolvedReportType == last.op = "get_prompt_by_report_type"

\* The last call was get_prompt_family.
ResolvedFamily == last.op = "get_prompt_family"

\* The last call was a call of a generator.
CalledGenerator == last.op = "generator"

\* The last call was a call of the generator get_prompt_by_report_type returned
\* for a key of report_type_mapping.
CalledMappedGenerator ==
    CalledGenerator /\ HasKey(report_type_mapping, last.report_type)

\* C1: for a report-type identifier that is not a key of report_type_mapping,
\* get_prompt_by_report_type emits exactly one warning and its outcome is that of
\* resolving the default identifier "research_report" against the same family:
\* for a family that keeps the method-name contract, the family's
\* generate_report_prompt.
C1_UnknownReportTypeGivesDefault ==
    (ResolvedReportType /\ ~HasKey(report_type_mapping, last.report_type)) =>
        /\ Len(last.warned) = 1
        /\ last.out = get_prompt_by_report_type(report_type_mapping, ResearchReport,
                                                last.prompt_family).out
        /\ last.prompt_family \in ContractFamilies =>
              last.out = Return(Method("PromptFamily", "generate_report_prompt"))

C1_Witness ==
    /\ ResolvedReportType
    /\ last.report_type = "bogus_type"
    /\ last.prompt_family = Family("instance", "Derived")
    /\ Len(last.warned) = 1
    /\ last.out = Return(Method("PromptFamily", "generate_report_prompt"))

\* C2: for every key of report_type_mapping the resolved generator, called with the
\* standard generator arguments, returns a non-empty text that contains the
\* question and the language given.
C2_MappedGeneratorsEmbedQuestionAndLanguage ==
    CalledMappedGenerator =>
        /\ last.out.kind = "return"
        /\ last.out.val /= <<>>
        /\ Contains(last.out.val, PyStr(last.args.question))
        /\ Contains(last.out.val, PyStr(last.args.language))

\* C3: for a prompt-family name that is not a key of prompt_family_mapping,
\* get_prompt_family emits a warning and returns an instance of PromptFamily; it
\* does not raise.
C3_UnknownFamilyGivesDefault ==
    (/\ ResolvedFamily
     /\ last.prompt_family_name.t = "str"
     /\ ~HasKey(prompt_family_mapping, last.prompt_family_name.s[1])) =>
        /\ Len(last.warned) >= 1
        /\ last.out.kind = "return"
        /\ last.out.val[1] = "instance"
        /\ last.out.val[2] = "PromptFamily"

\* C4: get_prompt_by_report_type never raises: for every identifier and every
\* family it returns a generator method.
C4_ReportTypeResolutionNeverRaises ==
    ResolvedReportType => (last.out.kind = "return" /\ last.out.val /= NoMethod)

HyperlinkDirective == <<"Every url should be hyperlinked: [url website](url)">>

NoDuplicatesDirective ==
    <<"make sure to not add duplicated sources, but only one reference for each">>

DocumentNamesDirective ==
    <<"You MUST write all used source document names at the end of the report as references">>

\* The generators that have a report_source parameter.
TakesReportSource(generator) ==
    \E i \in 1..Len(Params(generator)) : Params(generator)[i].name = "report_source"

\* C5: a generator that takes report_source (called with the arguments after
\* report_source given by name) returns, for "web", a prompt with the directive to
\* hyperlink every url and the directive against duplicate references, and for
\* "documents" a prompt with the directive to reference document names and
\* without the directive to hyperlink urls.
C5_ReferenceDirectiveFollowsReportSource ==
    (/\ CalledGenerator
     /\ TakesReportSource(last.method[2])
     /\ last.given = 3
     /\ last.out.kind = "return") =>
        /\ PyEq(last.args.report_source, StrV(<<Web>>)) =>
              /\ Contains(last.out.val, HyperlinkDirective)
              /\ Contains(last.out.val, NoDuplicatesDirective)
        /\ PyEq(last.args.report_source, StrV(<<"documents">>)) =>
              /\ Contains(last.out.val, DocumentNamesDirective)
              /\ ~Contains(last.out.val, HyperlinkDirective)

\* C6: every generator named in report_type_mapping returns a text, without
\* raising, for any question and context (the empty ones too) and for a tone that
\* is None or a member of Tone.
C6_MappedGeneratorsNeverRaise ==
    CalledMappedGenerator => last.out.kind = "return"

\* C7: for a registered prompt-family name, get_prompt_family emits no warning and
\* returns an instance of PromptFamily whose cfg is the configuration passed in.
C7_RegisteredFamilyIsConstructedWithConfig ==
    (/\ ResolvedFamily
     /\ last.prompt_family_name.t = "str"
     /\ HasKey(prompt_family_mapping, last.prompt_family_name.s[1])) =>
        /\ last.warned = <<>>
        /\ last.out = Return(<<"instance", "PromptFamily", last.config>>)

C7_Witness ==
    /\ ResolvedFamily
    /\ last.prompt_family_name = StrV(<<DefaultFamilyName>>)
    /\ last.config = "config_b"
    /\ last.out = Return(<<"instance", "PromptFamily", "config_b">>)

\* C8: every value of report_type_mapping names a method of class PromptFamily,
\* and resolving a key of the table against a family that keeps the method-name
\* contract returns the family's method of that name without a warning.
C8_MappingNamesFamilyMethods ==
    /\ \A i \in 1..Len(report_type_mapping) :
          report_type_mapping[i][2] \in PromptFamilyMethods
    /\ (/\ ResolvedReportType
        /\ HasKey(report_type_mapping, last.report_type)
        /\ last.prompt_family \in ContractFamilies) =>
          /\ last.warned = <<>>
          /\ last.out.kind = "return"
          /\ last.out.val /= NoMethod
          /\ last.out.val[2] = Get(report_type_mapping, last.report_type, NoKey)

C8_Witness ==
    /\ ResolvedReportType
    /\ last.report_type = OutlineReport
    /\ last.prompt_family = Family("class", "Derived")
    /\ last.warned = <<>>
    /\ last.out = Return(Method("Derived", "generate_outline_report_prompt"))

\* C9: every generator named in report_type_mapping, called with its arguments by
\* position in the order of PROMPT_GENERATOR, binds the fifth to its tone and the
\* sixth to its total_words, and returns.
C9_PositionalArgumentsKeepTheirMeaning ==
    (CalledMappedGenerator /\ last.given = Len(PROMPT_GENERATOR)) =>
        LET params == Params(last.method[2])
        IN /\ BindOk(params, last.pos, last.kw)
           /\ "tone" \in ParamNames(params)
           /\ "total_words" \in ParamNames(params)
           /\ Bind(params, last.pos, last.kw)["tone"] = last.args.tone
           /\ Bind(params, last.pos, last.kw)["total_words"] = last.args.total_words
           /\ last.out.kind = "return"

----------------------------------------------------------------------------
(* Properties of generate_subtopic_report_prompt *)

\* Token i of text begins a line and is a single '#'.
BeginsH1Line(text, i) ==
    /\ text[i] = "#"
    /\ (i = 1 \/ text[i - 1] = "\n")
    /\ (i = Len(text) \/ text[i + 1] /= "#")

\* text has a line that begins with a single '#'.
HasH1Line(text) == \E i \in 1..Len(text) : BeginsH1Line(text, i)

\* text has, after its first line, a line that begins with a single '#'.
HasLaterH1Line(text) == \E i \in 2..Len(text) : BeginsH1Line(text, i)

\* The last call was a direct call of generate_subtopic_report_prompt that returned.
SubtopicReturned ==
    /\ CalledGenerator
    /\ last.method = Method("PromptFamily", "generate_subtopic_report_prompt")
    /\ last.out.kind = "return"

\* C10, as claimed: the output of generate_subtopic_report_prompt has no line that
\* begins with a single '#', whatever its inputs.
C10_SubtopicOutputHasNoH1Line ==
    SubtopicReturned => ~HasH1Line(last.out.val)

\* C10, amended: the output of generate_subtopic_report_prompt has no line that
\* begins with a single '#' when the string form of no input has, after its first
\* line, a line that begins with a single '#'.
C10_SubtopicOutputHasNoH1LineOfItsOwn ==
    (/\ SubtopicReturned
     /\ \A n \in DOMAIN last.kw : ~HasLaterH1Line(PyStr(last.kw[n]))) =>
        ~HasH1Line(last.out.val)

C10_Witness ==
    /\ SubtopicReturned
    /\ \A n \in DOMAIN last.kw : ~HasLaterH1Line(PyStr(last.kw[n]))
    /\ last.kw.context = StrV(<<"\n", "#", "#">>)
    /\ last.kw.existing_headers = ListOfStr(<< <<"\n", "#">> >>)
    /\ last.kw.relevant_written_contents = StrV(<<"\n", "#", "#">>)
    /\ ~HasH1Line(last.out.val)

----------------------------------------------------------------------------
(* More properties of the resolvers *)

\* The family of the last get_prompt_by_report_type call has no attribute of the
\* name the table gives for the call's identifier, which is a key of the table.
FamilyLacksMappedMethod ==
    /\ ResolvedReportType
    /\ HasKey(report_type_mapping, last.report_type)
    /\ GetAttrOrNone(last.prompt_family,
                     Get(report_type_mapping, last.report_type, NoKey)) = NoMethod

\* C11: when the identifier is a key of report_type_mapping and the family lacks
\* the mapped method, get_prompt_by_report_type emits one warning whose message
\* lists every key of the table, and returns the family's generate_report_prompt.
C11_MissingMethodGivesDefault ==
    FamilyLacksMappedMethod =>
        /\ Len(last.warned) = 1
        /\ \A i \in 1..Len(report_type_mapping) :
              Contains(last.warned[1].message, <<report_type_mapping[i][1]>>)
        /\ last.out.kind = "return"
        /\ last.out.val /= NoMethod
        /\ last.out.val[2] = "generate_report_prompt"

\* C16: get_prompt_family called with a member of PromptFamilyEnum has the outcome
\* and emits the warnings of the call with the member's string value and the same
\* configuration.
C16_EnumMemberActsAsItsValue ==
    (ResolvedFamily /\ last.prompt_family_name.t = "family_enum") =>
        LET value == StrV(<<PromptFamilyEnumValue(last.prompt_family_name.s[1])>>)
            r == get_prompt_family(prompt_family_mapping, value, last.config)
        IN /\ last.out = r.out
           /\ last.warned = r.warned

C16_Witness ==
    /\ ResolvedFamily
    /\ last.prompt_family_name = FamilyEnumMember("Default")
    /\ last.config = "config_b"
    /\ last.warned = <<>>
    /\ last.out = Return(<<"instance", "PromptFamily", "config_b">>)

\* The family of the other kind: the class of an instance, an instance of a class.
OtherKind(prompt_family) ==
    Family(IF prompt_family.kind = "class" THEN "instance" ELSE "class", prompt_family.cls)

\* C17: get_prompt_by_report_type has the same outcome for a family's class and
\* for an instance of it, and for a key of the table whose method the family's
\* class has it returns the method that class gives: the override of a subclass
\* that overrides it, not the method of the base class.
C17_ResolvesAgainstGivenFamily ==
    (ResolvedReportType /\ HasKey(report_type_mapping, last.report_type)) =>
        LET name == Get(report_type_mapping, last.report_type, NoKey)
            attrs == ClassAttrs(last.prompt_family.cls)
        IN /\ last.out = get_prompt_by_report_type(report_type_mapping, last.report_type,
                                                   OtherKind(last.prompt_family)).out
           /\ name \in DOMAIN attrs => last.out = Return(Method(attrs[name], name))
           /\ (last.prompt_family.cls = "Derived" /\ name = "generate_outline_report_prompt") =>
                 /\ last.out = Return(Method("Derived", name))
                 /\ last.out /= Return(Method("PromptFamily", name))

C17_Witness ==
    /\ ResolvedReportType
    /\ last.report_type = OutlineReport
    /\ last.prompt_family = Family("instance", "Derived")
    /\ last.out = Return(Method("Derived", "generate_outline_report_prompt"))
    /\ last.out = get_prompt_by_report_type(report_type_mapping, OutlineReport,
                                            Family("class", "Derived")).out

\* A call of generate_search_queries_prompt for the parent query "Parent".
SearchFor(report_type) ==
    CallGenerator("generate_search_queries_prompt", <<>>,
                  [ question |-> Question, parent_query |-> StrV(<<"Parent">>),
                    report_type |-> StrV(<<report_type>>) ], clock)

\* C18: the value of ReportType.DetailedReport, for which
\* generate_search_queries_prompt puts the parent query into the task as it does
\* for the subtopic report, is not a key of report_type_mapping: resolving it emits
\* one warning and has the outcome of resolving the default report type, which is
\* the family's generate_report_prompt for a family that has one.
C18_DetailedReportIsNotMapped ==
    /\ ~HasKey(report_type_mapping, DetailedReport)
    /\ Contains(SearchFor(DetailedReport).val, <<"Parent", " - ">> \o Question.s)
    /\ ~Contains(SearchFor(ResearchReport).val, <<"Parent", " - ">> \o Question.s)
    /\ (ResolvedReportType /\ last.report_type = DetailedReport) =>
          /\ Len(last.warned) = 1
          /\ last.out = get_prompt_by_report_type(report_type_mapping, ResearchReport,
                                                  last.prompt_family).out
          /\ "generate_report_prompt" \in DOMAIN ClassAttrs(last.prompt_family.cls) =>
                /\ last.out.kind = "return"
                /\ last.out.val /= NoMethod
                /\ last.out.val[2] = "generate_report_prompt"

C18_Witness ==
    /\ ResolvedReportType
    /\ last.report_type = DetailedReport
    /\ last.prompt_family = Family("class", "PromptFamily")
    /\ Len(last.warned) = 1
    /\ Contains(last.warned[1].message, <<"Invalid report type: ", DetailedReport>>)
    /\ last.out = Return(Method("PromptFamily", "generate_report_prompt"))

----------------------------------------------------------------------------
(* Properties of the generators called directly *)

\* The last call was a call of the generator of class PromptFamily named.
Called(generator) ==
    CalledGenerator /\ last.method = Method("PromptFamily", generator)

\* The parameters of the last generator call, as the call bound them.
Bound == Bind(Params(last.method[2]), last.pos, last.kw)

\* text contains the parts one after the other, in their order, from token from on.
RECURSIVE OccurInOrder(_, _, _)
OccurInOrder(text, parts, from) ==
    IF parts = <<>> THEN TRUE
    ELSE \E i \in from..(Len(text) - Len(parts[1]) + 1) :
            /\ SubSeq(text, i, i + Len(parts[1]) - 1) = parts[1]
            /\ OccurInOrder(text, Tail(parts), i + Len(parts[1]))

\* C12: for every max_tools N and every list of tool metadata,
\* generate_mcp_tool_selection_prompt returns a text that contains "EXACTLY N" and
\* the JSON object of every tool given, one after the other in the order given.
C12_ToolSelectionStatesCountAndCatalog ==
    Called("generate_mcp_tool_selection_prompt") =>
        /\ last.out.kind = "return"
        /\ Contains(last.out.val, <<"EXACTLY ">> \o PyStr(Bound.max_tools))
        /\ OccurInOrder(last.out.val,
                        [i \in 1..Len(Bound.tools_info.l) |->
                            JsonObject(Bound.tools_info.l[i], 1)], 1)

C12_Witness ==
    /\ Called("generate_mcp_tool_selection_prompt")
    /\ last.kw.tools_info =
          ListOfDict(<< <<"name", "fetch_url", "description", "Fetch a page">>,
                        <<"name", "web_search", "description", "Search the web">> >>)
    /\ "max_tools" \in DOMAIN last.kw
    /\ last.kw.max_tools = IntOf(1)
    /\ Contains(last.out.val, <<"EXACTLY ", "1", " tools that are most relevant for researching the given query.">>)
    /\ Contains(last.out.val, <<"\"", "fetch_url", "\"">>)

\* C13: for every max_results M and every list of sources, every cap the text of
\* curate_sources states ("up to ...") is M, and the text states it, however many
\* sources were given.
C13_CurateSourcesStatesGivenCap ==
    Called("curate_sources") =>
        LET cap == PyStr(Bound.max_results)
            text == last.out.val
        IN /\ last.out.kind = "return"
           /\ Contains(text, <<"up to ">> \o cap \o <<", focusing on broad coverage and diversity.">>)
           /\ \A i \in 1..Len(text) :
                 text[i] = "up to " => SubSeq(text, i + 1, i + Len(cap)) = cap

C13_Witness ==
    /\ Called("curate_sources")
    /\ Len(last.kw.sources.l) = 2
    /\ "max_results" \in DOMAIN last.kw
    /\ last.kw.max_results = IntOf(5)
    /\ Contains(last.out.val, <<"up to ", "5">>)
    /\ ~Contains(last.out.val, <<"up to ", "2">>)

----------------------------------------------------------------------------
(* Properties of sequences of calls *)

\* The last call is a generator call with the generator, the arguments and the date
\* of the generator call the caller has kept.
RepeatsSeenCall ==
    /\ seen.call.op = "generator"
    /\ last.op = "generator"
    /\ last.method = seen.call.method
    /\ last.pos = seen.call.pos
    /\ last.kw = seen.call.kw
    /\ last.day = seen.call.day

\* C14: a generator called again with the arguments and on the date of an earlier
\* call has the outcome of that call, whatever generator and resolver calls were
\* made in between.
C14_SameCallSameDateSameText ==
    RepeatsSeenCall => last.out = seen.call.out

\* The generator was called, then a resolver call that warned was made, then the
\* generator was called again with the same arguments on the same date.
C14_Witness ==
    /\ RepeatsSeenCall
    /\ warnings > seen.warnings
    /\ last.method = Method("PromptFamily", "generate_search_queries_prompt")
    /\ "context" \notin DOMAIN last.kw
    /\ last.out.kind = "return"
    /\ last.out = seen.call.out

\* C15: after every sequence of generator calls, get_prompt_by_report_type calls
\* and get_prompt_family calls, the two tables and the default context list of
\* generate_search_queries_prompt hold what they held after the import.
C15_TablesAndDefaultContextNeverWritten ==
    /\ report_type_mapping = ReportTypeMapping
    /\ prompt_family_mapping = PromptFamilyMapping
    /\ default_context = <<>>

\* Two resolver calls have taken the fallback path, the later of them a
\* get_prompt_family call, after a call of generate_search_queries_prompt with the
\* default context.
C15_Witness ==
    /\ seen.call.op = "generator"
    /\ seen.call.method = Method("PromptFamily", "generate_search_queries_prompt")
    /\ "context" \notin DOMAIN seen.call.kw
    /\ seen.warnings = 0
    /\ warnings = 2
    /\ last.op = "get_prompt_family"
    /\ Len(last.warned) = 1
    /\ report_type_mapping = ReportTypeMapping
    /\ prompt_family_mapping = PromptFamilyMapping
    /\ default_context = <<>>

----------------------------------------------------------------------------
(* Properties of the tone directive and of the search task *)

\* text without the first occurrence of part.
WithoutFirst(text, part) ==
    IF ~Contains(text, part) THEN text
    ELSE LET i == CHOOSE j \in 1..Len(text) :
                     /\ SubSeq(text, j, j + Len(part) - 1) = part
                     /\ \A k \in 1..(j - 1) : SubSeq(text, k, k + Len(part) - 1) /= part
         IN SubSeq(text, 1, i - 1) \o SubSeq(text, i + Len(part), Len(text))

\* The last call was a call of generate_report_prompt or of
\* generate_deep_research_prompt with its tone given by name.
CalledWithTone ==
    /\ CalledGenerator
    /\ last.method[2] \in {"generate_report_prompt", "generate_deep_research_prompt"}
    /\ "tone" \in DOMAIN last.kw

\* C19: generate_report_prompt and generate_deep_research_prompt return a text
\* with the directive "Write the report in a <tone value> tone." when the tone is
\* a member of Tone and a text without a tone directive when the tone is None; the
\* text for a member, with the directive taken out, is the text for None.
C19_ToneDirectiveFollowsTone ==
    CalledWithTone =>
        LET tone == last.kw.tone
            for_none == CallGenerator(last.method[2], last.pos,
                                      [last.kw EXCEPT !.tone = NoneValue], last.day)
        IN /\ last.out.kind = "return"
           /\ for_none.kind = "return"
           /\ ~Contains(for_none.val, <<"Write the report in a ">>)
           /\ tone = NoneValue => last.out = for_none
           /\ tone.t = "tone" =>
                 LET directive == <<"Write the report in a ", ToneValue(tone.s[1]), " tone.">>
                 IN /\ Contains(last.out.val, <<"- ">> \o directive \o <<"\n">>)
                    /\ WithoutFirst(last.out.val, directive) = for_none.val

C19_Witness ==
    /\ CalledWithTone
    /\ last.method[2] = "generate_deep_research_prompt"
    /\ last.kw.tone = ToneMember("Formal")
    /\ last.out.kind = "return"
    /\ Contains(last.out.val, <<"Write the report in a ", "Tone.Formal.value", " tone.">>)

\* The text that introduces the task in the first line of the search-queries prompt.
TaskHeading ==
    " strategic search queries for retail real estate acquisition due diligence on: \""

\* C20: the task of generate_search_queries_prompt is "<parent_query> - <question>"
\* when report_type is the detailed-report or the subtopic-report value and the
\* question alone for every other report_type, and then the text is the same for
\* every parent_query.
C20_TaskTextFollowsReportType ==
    Called("generate_search_queries_prompt") =>
        LET b == Bound
            question_text == PyStr(b.question)
            combined == PyStr(b.parent_query) \o <<" - ">> \o question_text
            text == last.out.val
            for_other_parent ==
                CallGenerator(last.method[2], last.pos,
                              [last.kw EXCEPT !.parent_query = StrV(<<"Another parent query">>)],
                              last.day)
        IN /\ last.out.kind = "return"
           /\ IF b.report_type \in {StrV(<<DetailedReport>>), StrV(<<SubtopicReport>>)}
              THEN /\ Contains(text, <<TaskHeading>> \o combined \o <<"\"", "\n">>)
                   /\ last.out /= for_other_parent
              ELSE /\ Contains(text, <<TaskHeading>> \o question_text \o <<"\"", "\n">>)
                   /\ ~Contains(text, combined)
                   /\ last.out = for_other_parent

C20_Witness ==
    /\ Called("generate_search_queries_prompt")
    /\ last.kw.report_type = StrV(<<SubtopicReport>>)
    /\ last.kw.parent_query = StrV(<<"Austin retail corridor">>)
    /\ Contains(last.out.val,
                <<TaskHeading, "Austin retail corridor", " - ",
                  "Starbucks, 100 Main St, Austin TX", "\"", "\n">>)

----------------------------------------------------------------------------
(* Properties of the response-format example of the search-queries prompt *)

\* The text that opens the response-format example.
FormatLead == "You MUST respond with a list of strings in the following format: ["

\* The tokens of text between the opening of the response-format example and the
\* "]." that closes it.
FormatExample(text) ==
    LET start == CHOOSE i \in 1..Len(text) : text[i] = FormatLead
        stop == CHOOSE j \in (start + 1)..Len(text) :
                    /\ text[j] = "]."
                    /\ \A k \in (start + 1)..(j - 1) : text[k] /= "]."
    IN SubSeq(text, start + 1, stop - 1)

\* C21: for every max_iterations N >= 0, generate_search_queries_prompt returns a
\* text that begins "Generate N" and whose response-format example holds exactly
\* the N placeholders "query 1", ..., "query N", in this order and separated by
\* ", ": nothing between the brackets when N = 0.
C21_ExampleListsNPlaceholders ==
    (/\ Called("generate_search_queries_prompt")
     /\ Bound.max_iterations.t = "int"
     /\ IntNum(Bound.max_iterations) >= 0) =>
        LET n == IntNum(Bound.max_iterations)
            text == last.out.val
        IN /\ last.out.kind = "return"
           /\ SubSeq(text, 1, 2) = <<"Generate ", ToString(n)>>
           /\ Contains(text, <<FormatLead>>)
           /\ LET example == FormatExample(text)
              IN /\ Len(example) = IF n = 0 THEN 0 ELSE 4 * n - 1
                 /\ \A k \in 1..n :
                       /\ SubSeq(example, 4 * k - 3, 4 * k - 1) =
                             <<"\"query ", ToString(k), "\"">>
                       /\ k < n => example[4 * k] = ", "

C21_Witness ==
    /\ Called("generate_search_queries_prompt")
    /\ "max_iterations" \in DOMAIN last.kw
    /\ last.kw.max_iterations = IntOf(2)
    /\ Contains(last.out.val,
                <<FormatLead, "\"query ", "1", "\"", ", ", "\"query ", "2", "\"", "].">>)

----------------------------------------------------------------------------
(* Properties of generate_mcp_research_prompt *)

\* C22: generate_mcp_research_prompt returns a text whose tool list holds one name
\* for each element of selected_tools, in the order given: the attribute name of
\* an element that has one, the string form of any other element; this for lists
\* that mix both kinds and for the empty list.
C22_ResearchPromptListsToolNames ==
    Called("generate_mcp_research_prompt") =>
        LET tools == Bound.selected_tools.l
            expected == [i \in 1..Len(tools) |->
                            IF tools[i][1] = "named" THEN tools[i][2]
                            ELSE tools[i][Len(tools[i])]]
        IN /\ last.out.kind = "return"
           /\ Contains(last.out.val,
                       <<"AVAILABLE TOOLS: ", "[">>
                       \o Join([i \in 1..Len(tools) |-> <<"'", expected[i], "'">>], <<", ">>)
                       \o <<"]", "\n">>)

C22_Witness ==
    /\ Called("generate_mcp_research_prompt")
    /\ last.kw.selected_tools =
          ListOfTool(<< <<"str", "fetch_url">>, <<"named", "web_search", "<Tool web_search>">> >>)
    /\ Contains(last.out.val,
                <<"AVAILABLE TOOLS: ", "[", "'", "fetch_url", "'", ", ",
                  "'", "web_search", "'", "]", "\n">>)

----------------------------------------------------------------------------
(* Properties of pretty_print_docs *)

\* How many tokens of text are tok.
Count(text, tok) == Cardinality({ i \in 1..Len(text) : text[i] = tok })

\* The position of the k-th token of text that is tok.
Position(text, tok, k) ==
    CHOOSE i \in 1..Len(text) :
        /\ text[i] = tok
        /\ Cardinality({ j \in 1..i : text[j] = tok }) = k

\* C23: pretty_print_docs renders the documents in their order: all of them when
\* top_n is None, and otherwise the first min(top_n, number of documents) of
\* them, which is none of them when top_n <= 0.
C23_PrettyPrintKeepsFirstTopN ==
    Called("pretty_print_docs") =>
        LET docs == Bound.docs.l
            top_n == Bound.top_n
            m == IF top_n.t = "none" THEN Len(docs)
                 ELSE IF IntNum(top_n) <= 0 THEN 0
                 ELSE IF IntNum(top_n) < Len(docs) THEN IntNum(top_n)
                 ELSE Len(docs)
            text == last.out.val
        IN /\ last.out.kind = "return"
           /\ Count(text, "Source: ") = m
           /\ Count(text, "Content: ") = m
           /\ \A k \in 1..m :
                 /\ text[Position(text, "Content: ", k) + 1] = docs[k][1]
                 /\ Position(text, "Source: ", k) < Position(text, "Content: ", k)
           /\ m = 0 => text = <<>>

C23_Witness ==
    /\ Called("pretty_print_docs")
    /\ "top_n" \in DOMAIN last.kw
    /\ last.kw.top_n = IntOf(1)
    /\ last.kw.docs =
          ListOfDoc(<< <<"Lease renewed to 2035.", "source", "lease.pdf">>,
                       <<"Two stores closed.", "source", "https://b.example/news",
                         "title", "Closures">> >>)
    /\ last.out.val =
          <<"Source: ", "lease.pdf", "\n", "Title: ", "None", "\n",
            "Content: ", "Lease renewed to 2035.", "\n">>

----------------------------------------------------------------------------
(* Warnings of get_prompt_by_report_type against the base PromptFamily *)

\* C24: over any sequence of get_prompt_by_report_type calls against the base
\* PromptFamily, the number of warnings emitted equals the number of calls whose
\* report_type is not a key of report_type_mapping, and a call with a registered
\* report_type emits no warning.
C24_WarningsCountUnregisteredCalls ==
    /\ warnings = unregistered_calls
    /\ (/\ last.op = "get_prompt_by_report_type"
        /\ HasKey(report_type_mapping, last.report_type)) => last.warned = <<>>
    /\ (/\ last.op = "get_prompt_by_report_type"
        /\ ~HasKey(report_type_mapping, last.report_type)) => Len(last.warned) = 1

\* A call with an unregistered report_type has warned, and a later call with a
\* registered one has added no warning.
C24_Witness ==
    /\ last.op = "get_prompt_by_report_type"
    /\ last.prompt_family \in BaseFamilies
    /\ HasKey(report_type_mapping, last.report_type)
    /\ last.warned = <<>>
    /\ unregistered_calls = 1
    /\ warnings = 1

====
